---- MODULE Spec2Model ----
(***************************************************************************)
(* A model of the claude-dashboard scripts:                                *)
(*   - the comprehensive stats generator  (src/unnamed/part_000),          *)
(*   - the privacy-safe generator          (src/generate-data.js),         *)
(*   - the express server                  (src/server.js).                *)
(*                                                                         *)
(* JavaScript values are encoded as follows.                               *)
(*   string        a tuple of characters, so that includes(), parseInt()   *)
(*                 and the array-index test on property keys are computed  *)
(*                 from the characters.  An ASCII character is the string  *)
(*                 of that character; a character outside ASCII is the     *)
(*                 six-character string of its escape, a backslash, u and  *)
(*                 four lower-case hexadecimal digits, because a module    *)
(*                 cannot hold such a character itself;                    *)
(*   timestamp     hours since the epoch (>= 1); 0 is "no timestamp"       *)
(*                 (undefined/null/empty: falsy), -1 is a string that is   *)
(*                 no date (new Date(..) is an Invalid Date);              *)
(*   Date | null   the same hours, 0 for null;                             *)
(*   plain object  a sequence of [k, v] properties in insertion order;     *)
(*   counter value [t |-> "num", n |-> the number] or, once + has          *)
(*                 concatenated, [t |-> "str", n |-> number of "1"s        *)
(*                 appended to the inherited member's text];               *)
(*   array         a sequence, element i of the array at position i+1;     *)
(*                 -1 is a hole.                                           *)
(* The host's time zone is UTC, so getHours()/getDay() agree with the ISO  *)
(* date.                                                                   *)
(***************************************************************************)
EXTENDS Integers, Sequences, FiniteSets, TLC

(***************************************************************************)
(* String literals of the sources.                                         *)
(***************************************************************************)
S_user == <<"u","s","e","r">>
S_assistant == <<"a","s","s","i","s","t","a","n","t">>
S_system == <<"s","y","s","t","e","m">>
S_tool_use == <<"t","o","o","l","_","u","s","e">>
S_text == <<"t","e","x","t">>
S_unknown == <<"u","n","k","n","o","w","n">>
S_opus == <<"o","p","u","s">>
S_sonnet == <<"s","o","n","n","e","t">>
S_Opus == <<"O","p","u","s">>
S_ClaudeOpus45 == <<"C","l","a","u","d","e"," ","O","p","u","s"," ","4",".","5">>
S_ClaudeSonnet45 == <<"C","l","a","u","d","e"," ","S","o","n","n","e","t"," ","4",".","5">>
S_constructor == <<"c","o","n","s","t","r","u","c","t","o","r">>
S_toString == <<"t","o","S","t","r","i","n","g">>
S_valueOf == <<"v","a","l","u","e","O","f">>
S_hasOwnProperty == <<"h","a","s","O","w","n","P","r","o","p","e","r","t","y">>
S_proto == <<"_","_","p","r","o","t","o","_","_">>
S_inputTokens == <<"i","n","p","u","t","T","o","k","e","n","s">>
S_outputTokens == <<"o","u","t","p","u","t","T","o","k","e","n","s">>
S_cacheRead == <<"c","a","c","h","e","R","e","a","d">>
S_cacheWrite == <<"c","a","c","h","e","W","r","i","t","e">>
S_sessions == <<"s","e","s","s","i","o","n","s">>
S_toLocaleString == <<"t","o","L","o","c","a","l","e","S","t","r","i","n","g">>
S_isPrototypeOf == <<"i","s","P","r","o","t","o","t","y","p","e","O","f">>
S_propertyIsEnumerable ==
  <<"p","r","o","p","e","r","t","y","I","s","E","n","u","m","e","r","a","b","l","e">>
S_defineGetter == <<"_","_","d","e","f","i","n","e","G","e","t","t","e","r","_","_">>
S_defineSetter == <<"_","_","d","e","f","i","n","e","S","e","t","t","e","r","_","_">>
S_lookupGetter == <<"_","_","l","o","o","k","u","p","G","e","t","t","e","r","_","_">>
S_lookupSetter == <<"_","_","l","o","o","k","u","p","S","e","t","t","e","r","_","_">>

(***************************************************************************)
(* JavaScript built-ins the scripts call.                                  *)
(***************************************************************************)
\* String.prototype.includes
Includes(s, pat) ==
  \E i \in 0..(Len(s) - Len(pat)) : SubSeq(s, i + 1, i + Len(pat)) = pat

Digits == <<"0","1","2","3","4","5","6","7","8","9">>

IsDigit(c) == \E d \in 1..10 : Digits[d] = c

DigitVal(c) == (CHOOSE d \in 1..10 : Digits[d] = c) - 1

\* the digits of radix 16 after "9", in lower and in upper case
HexLetters == <<"a","b","c","d","e","f">>

HexCapitals == <<"A","B","C","D","E","F">>

IsHexDigit(c) ==
  IsDigit(c) \/ \E d \in 1..6 : HexLetters[d] = c \/ HexCapitals[d] = c

HexDigitVal(c) ==
  IF IsDigit(c) THEN DigitVal(c)
  ELSE 9 + (CHOOSE d \in 1..6 : HexLetters[d] = c \/ HexCapitals[d] = c)

\* StrWhiteSpaceChar: WhiteSpace and LineTerminator.  Tab, LF, VT, FF, CR and
\* space, then NBSP, U+1680, U+2000..U+200A, U+2028, U+2029, U+202F, U+205F,
\* U+3000 and U+FEFF.
WhiteSpace ==
  {" ", "\t", "\n", "\r", "\f", "",
   "\\u00a0", "\\u1680", "\\u2000", "\\u2001", "\\u2002", "\\u2003",
   "\\u2004", "\\u2005", "\\u2006", "\\u2007", "\\u2008", "\\u2009",
   "\\u200a", "\\u2028", "\\u2029", "\\u202f", "\\u205f", "\\u3000",
   "\\ufeff"}

IsSpace(c) == c \in WhiteSpace

\* value of a string of decimal digits (TLC's integers: at most 9 digits)
RECURSIVE DecVal(_)
DecVal(s) == IF s = <<>> THEN 0
             ELSE 10 * DecVal(SubSeq(s, 1, Len(s) - 1)) + DigitVal(s[Len(s)])

\* value of a string of hexadecimal digits (at most 7 digits)
RECURSIVE HexVal(_)
HexVal(s) == IF s = <<>> THEN 0
             ELSE 16 * HexVal(SubSeq(s, 1, Len(s) - 1)) + HexDigitVal(s[Len(s)])

\* the longest prefix of decimal digits
RECURSIVE DigitPrefix(_)
DigitPrefix(s) == IF s = <<>> \/ ~IsDigit(Head(s)) THEN <<>>
                  ELSE <<Head(s)>> \o DigitPrefix(Tail(s))

\* the longest prefix of hexadecimal digits
RECURSIVE HexPrefix(_)
HexPrefix(s) == IF s = <<>> \/ ~IsHexDigit(Head(s)) THEN <<>>
                ELSE <<Head(s)>> \o HexPrefix(Tail(s))

\* parseInt skips leading white space
RECURSIVE TrimStart(_)
TrimStart(s) == IF s # <<>> /\ IsSpace(Head(s)) THEN TrimStart(Tail(s)) ELSE s

\* parseInt(s) without a radix: [nan, v].  White space is skipped, then a
\* sign, then a 0x/0X prefix selects radix 16 and anything else radix 10; the
\* longest prefix of digits of the radix is the value, none is NaN.
\* undefined is passed as <<"undefined">>.
ParseInt(s) ==
  LET t == TrimStart(s)
      neg == t # <<>> /\ Head(t) = "-"
      u == IF t # <<>> /\ Head(t) \in {"-", "+"} THEN Tail(t) ELSE t
      hex == Len(u) >= 2 /\ u[1] = "0" /\ u[2] \in {"x", "X"}
      ds == IF hex THEN HexPrefix(SubSeq(u, 3, Len(u))) ELSE DigitPrefix(u)
      val == IF hex THEN HexVal(ds) ELSE DecVal(ds)
  IN IF ds = <<>> THEN [nan |-> TRUE, v |-> 0]
     ELSE [nan |-> FALSE, v |-> IF neg THEN 0 - val ELSE val]

\* a canonical numeric string ("0", "42"; not "042", not "-1")
IsCanonicalNumeric(k) ==
  /\ k # <<>>
  /\ \A i \in 1..Len(k) : IsDigit(k[i])
  /\ (Len(k) = 1 \/ k[1] # "0")

\* a < b for canonical numeric strings, compared digit by digit
NumericLess(a, b) ==
  \/ Len(a) < Len(b)
  \/ /\ Len(a) = Len(b)
     /\ \E i \in 1..Len(a) :
          /\ \A j \in 1..(i - 1) : a[j] = b[j]
          /\ DigitVal(a[i]) < DigitVal(b[i])

\* the largest array index, 2^32 - 2
MaxArrayIndex == <<"4","2","9","4","9","6","7","2","9","4">>

\* A property key that is an array index: a canonical numeric string below
\* 2^32 - 1.  Such keys are enumerated first, in ascending numeric order.
IsArrayIndex(k) ==
  IsCanonicalNumeric(k) /\ ~NumericLess(MaxArrayIndex, k)

\* The members every plain object ({}) inherits from Object.prototype.
ObjectPrototypeKeys ==
  {S_constructor, S_toString, S_valueOf, S_hasOwnProperty, S_proto,
   S_toLocaleString, S_isPrototypeOf, S_propertyIsEnumerable,
   S_defineGetter, S_defineSetter, S_lookupGetter, S_lookupSetter}

HasOwn(obj, key) == \E i \in 1..Len(obj) : obj[i].k = key

OwnValue(obj, key) == obj[CHOOSE i \in 1..Len(obj) : obj[i].k = key].v

\* obj[key] = val on a plain object: an own key keeps its place, a new one is
\* appended; the __proto__ setter ignores a value that is no object.
JsSet(obj, key, val) ==
  IF HasOwn(obj, key)
  THEN [i \in 1..Len(obj) |-> IF obj[i].k = key THEN [k |-> key, v |-> val] ELSE obj[i]]
  ELSE IF key = S_proto THEN obj
  ELSE Append(obj, [k |-> key, v |-> val])

\* (obj[key] || 0) + 1 for a counter object created as {}.
IncrementedCount(obj, key) ==
  IF HasOwn(obj, key)
  THEN LET cur == OwnValue(obj, key)
       IN IF cur.t = "num" THEN [t |-> "num", n |-> cur.n + 1]
          ELSE [t |-> "str", n |-> cur.n + 1]
  ELSE IF key \in ObjectPrototypeKeys THEN [t |-> "str", n |-> 1]
  ELSE [t |-> "num", n |-> 1]

\* counts[key] = (counts[key] || 0) + 1
CountUp(obj, key) == JsSet(obj, key, IncrementedCount(obj, key))

\* the positions of obj whose key is (is not) an array index
IndexPositions(obj) == {i \in 1..Len(obj) : IsArrayIndex(obj[i].k)}

NamePositions(obj) == {i \in 1..Len(obj) : ~IsArrayIndex(obj[i].k)}

\* the positions in S by ascending key[i] (the keys are distinct)
RECURSIVE OrderByKey(_, _)
OrderByKey(S, key) ==
  IF S = {} THEN <<>>
  ELSE LET m == CHOOSE i \in S : \A j \in S \ {i} : key[i] < key[j]
       IN <<m>> \o OrderByKey(S \ {m}, key)

\* the positions in S (array-index keys, distinct) by ascending index
RECURSIVE OrderByIndex(_, _)
OrderByIndex(S, obj) ==
  IF S = {} THEN <<>>
  ELSE LET m == CHOOSE i \in S : \A j \in S \ {i} : NumericLess(obj[i].k, obj[j].k)
       IN <<m>> \o OrderByIndex(S \ {m}, obj)

\* Object.entries(obj): array-index keys ascending, then the others in
\* insertion order.
ObjectEntries(obj) ==
  LET byPos == [i \in NamePositions(obj) |-> i]
      order == OrderByIndex(IndexPositions(obj), obj) \o OrderByKey(NamePositions(obj), byPos)
  IN [i \in 1..Len(order) |-> obj[order[i]]]

\* entries.reduce((obj, [name, count]) => { obj[name] = count; return obj }, {})
RECURSIVE FromEntries(_)
FromEntries(es) ==
  IF es = <<>> THEN <<>>
  ELSE JsSet(FromEntries(SubSeq(es, 1, Len(es) - 1)), es[Len(es)].k, es[Len(es)].v)

\* Array.prototype.slice(0, n)
SliceTo(arr, n) == SubSeq(arr, 1, IF Len(arr) < n THEN Len(arr) ELSE n)

\* All orders of the positions 1..n.
Permutations1(n) ==
  {p \in [1..n -> 1..n] : \A i, j \in 1..n : i # j => p[i] # p[j]}

\* Array.prototype.sort((a, b) => b[1] - a[1]).  With numbers the sort is
\* stable and descending.  When a count is a string the comparator yields NaN,
\* it is not a consistent comparator and the order is implementation-defined:
\* every order is an outcome.
SortByCountDesc(es) ==
  IF \A i \in 1..Len(es) : es[i].v.t = "num"
  THEN LET rank == [i \in 1..Len(es) |-> (0 - es[i].v.n) * (Len(es) + 1) + i]
           order == OrderByKey(1..Len(es), rank)
       IN {[i \in 1..Len(es) |-> es[order[i]]]}
  ELSE {[i \in 1..Len(es) |-> es[p[i]]] : p \in Permutations1(Len(es))}

(***************************************************************************)
(* Time.                                                                   *)
(***************************************************************************)
\* now minus six months, in hours since the epoch
SIX_MONTHS_AGO == 100

\* new Date(timestamp) >= SIX_MONTHS_AGO; an Invalid Date compares false
InWindow(timestamp) == timestamp > 0 /\ timestamp >= SIX_MONTHS_AGO

\* getDateStr: the ISO date, as a day number
getDateStr(timestamp) == timestamp \div 24

\* getHour: 0..23
getHour(timestamp) == timestamp % 24

\* getWeekday: 0 = Sunday; the epoch's day 0 was a Thursday
getWeekday(timestamp) == ((timestamp \div 24) + 4) % 7

(***************************************************************************)
(* Session records (one parsed line of a session file).                    *)
(***************************************************************************)
NoContent == [kind |-> "absent", blocks |-> <<>>]

\* a JSON object with the fields the scripts read
Rec(ts, type, branch, content, model) ==
  [json |-> "object", timestamp |-> ts, type |-> type, gitBranch |-> branch,
   content |-> content, model |-> model]

\* a JSON value that is no object: null, or a primitive (every property
\* of a primitive reads as undefined)
NonObject(kind) ==
  [json |-> kind, timestamp |-> 0, type |-> <<>>, gitBranch |-> <<>>,
   content |-> NoContent, model |-> <<>>]

JsonNull == NonObject("null")

\* a truthy primitive such as 7 or "x"
JsonNumber == NonObject("number")

\* a falsy primitive: 0, false or ""
JsonFalsy == NonObject("falsy")

\* Boolean(value), as filter(Boolean) applies it
Truthy(value) == value.json \in {"object", "number"}

(***************************************************************************)
(* The comprehensive generator's accumulators.                             *)
(***************************************************************************)
ZeroUsage == [inputTokens |-> 0, outputTokens |-> 0, cacheRead |-> 0,
              cacheWrite |-> 0, sessions |-> 0]

\* data (the fields the scan and the cache write) and the module-level
\* toolCounts, branchCounts and allSessionDates.  modelUsageProto is the
\* prototype of data.modelUsage: <<>> for Object.prototype, <<usage>> once an
\* assignment to the key __proto__ has made a usage record the prototype.
InitialData ==
  [totalSessions |-> 0, totalMessages |-> 0, totalToolCalls |-> 0,
   totalTokens |-> [input |-> 0, output |-> 0, cacheRead |-> 0, cacheWrite |-> 0],
   averageSessionLength |-> 0,
   lastActivity |-> 0,
   modelUsage |-> <<>>,
   modelUsageProto |-> <<>>,
   hourlyActivity |-> [i \in 1..24 |-> 0],
   weekdayActivity |-> [i \in 1..7 |-> 0],
   allSessionDates |-> {},
   toolCounts |-> <<>>,
   branchCounts |-> <<>>]

\* the locals of processSession
InitialSession ==
  [sessionMessages |-> 0, sessionToolCalls |-> 0, sessionStart |-> 0,
   sessionEnd |-> 0, branch |-> <<>>]

\* model.includes('opus') ? 'Claude Opus 4.5' : model.includes('sonnet') ? ...
ShortName(model) ==
  IF Includes(model, S_opus) THEN S_ClaudeOpus45
  ELSE IF Includes(model, S_sonnet) THEN S_ClaudeSonnet45
  ELSE model

\* a walker that buckets every timestamp, whatever its date
TrackTimestamp_anyDate(g, s, line) ==
  IF line.timestamp # 0
  THEN [g |-> [g EXCEPT
                 !.hourlyActivity[getHour(line.timestamp) + 1] = @ + 1,
                 !.weekdayActivity[getWeekday(line.timestamp) + 1] = @ + 1],
        s |-> s]
  ELSE [g |-> g, s |-> s]

\* lines 263-281: the timestamp branch of the walker
TrackTimestamp(g, s, line) ==
  IF line.timestamp # 0 /\ InWindow(line.timestamp)
  THEN LET ts == line.timestamp
           hour == getHour(ts)
           weekday == getWeekday(ts)
       IN [g |-> [g EXCEPT
                    !.allSessionDates = @ \cup {getDateStr(ts)},
                    !.hourlyActivity[hour + 1] = @ + 1,
                    !.weekdayActivity[weekday + 1] = @ + 1,
                    !.lastActivity = IF @ = 0 \/ ts > @ THEN ts ELSE @],
           s |-> [s EXCEPT
                    !.sessionStart = IF @ = 0 \/ ts < @ THEN ts ELSE @,
                    !.sessionEnd = IF @ = 0 \/ ts > @ THEN ts ELSE @]]
  ELSE [g |-> g, s |-> s]


\* lines 284-286
IsMessage(line) == line.type = S_user \/ line.type = S_assistant

\* a walker that counts the records of type user only
CountMessage_userOnly(s, line) ==
  IF line.type = S_user THEN [s EXCEPT !.sessionMessages = @ + 1] ELSE s

CountMessage(s, line) ==
  IF IsMessage(line) THEN [s EXCEPT !.sessionMessages = @ + 1] ELSE s

\* lines 289-292
TrackBranch(g, s, line) ==
  IF line.gitBranch # <<>> /\ s.branch = <<>>
  THEN [g |-> [g EXCEPT !.branchCounts = CountUp(@, line.gitBranch)],
        s |-> [s EXCEPT !.branch = line.gitBranch]]
  ELSE [g |-> g, s |-> s]

\* lines 298-304: the loop over the content blocks; acc = [calls, counts]
RECURSIVE CountBlocks(_, _)
CountBlocks(blocks, acc) ==
  IF blocks = <<>> THEN acc
  ELSE LET block == Head(blocks)
           toolName == IF block.name # <<>> THEN block.name ELSE S_unknown
       IN CountBlocks(Tail(blocks),
            IF block.type = S_tool_use
            THEN [calls |-> acc.calls + 1, counts |-> CountUp(acc.counts, toolName)]
            ELSE acc)

\* lines 295-306
CountToolCalls(g, s, line) ==
  IF line.type = S_assistant /\ line.content.kind = "array"
  THEN LET r == CountBlocks(line.content.blocks,
                            [calls |-> s.sessionToolCalls, counts |-> g.toolCounts])
       IN [g |-> [g EXCEPT !.toolCounts = r.counts],
           s |-> [s EXCEPT !.sessionToolCalls = r.calls]]
  ELSE [g |-> g, s |-> s]

\* usage[name] of a usage record; 0 for a name that is none of its fields
UsageMember(usage, name) ==
  IF name = S_inputTokens THEN usage.inputTokens
  ELSE IF name = S_outputTokens THEN usage.outputTokens
  ELSE IF name = S_cacheRead THEN usage.cacheRead
  ELSE IF name = S_cacheWrite THEN usage.cacheWrite
  ELSE IF name = S_sessions THEN usage.sessions
  ELSE 0

\* data.modelUsage[name] is truthy although name is no own key: a member of
\* Object.prototype, or a non-zero field of the usage record that is the
\* prototype
InheritsTruthy(g, name) ==
  \/ name \in ObjectPrototypeKeys
  \/ g.modelUsageProto # <<>> /\ UsageMember(g.modelUsageProto[1], name) # 0

\* lines 309-317: an inherited member is truthy, and then the ++ lands on the
\* inherited value and leaves data.modelUsage as it is; for the name __proto__
\* that value is the prototype, whose sessions it increments
TrackModel(g, line) ==
  IF line.model = <<>> THEN g
  ELSE LET shortName == ShortName(line.model)
           mu == g.modelUsage
       IN IF HasOwn(mu, shortName)
          THEN [g EXCEPT !.modelUsage =
                  JsSet(mu, shortName,
                        [OwnValue(mu, shortName) EXCEPT !.sessions = @ + 1])]
          ELSE IF shortName = S_proto /\ g.modelUsageProto # <<>>
          THEN [g EXCEPT !.modelUsageProto[1].sessions = @ + 1]
          ELSE IF InheritsTruthy(g, shortName) THEN g
          ELSE [g EXCEPT !.modelUsage =
                  JsSet(mu, shortName, [ZeroUsage EXCEPT !.sessions = 1])]

\* a walker that adds every message to the summary's total as well
ProcessLine_countsGlobal(g, s, line) ==
  IF line.json = "null" THEN [g |-> g, s |-> s, threw |-> TRUE]
  ELSE LET a == TrackTimestamp(g, s, line)
           s1 == CountMessage(a.s, line)
           b == TrackBranch(a.g, s1, line)
           c == CountToolCalls(b.g, b.s, line)
           g1 == TrackModel(c.g, line)
       IN [g |-> IF IsMessage(line) THEN [g1 EXCEPT !.totalMessages = @ + 1] ELSE g1,
           s |-> c.s, threw |-> FALSE]

\* lines 261-318: one iteration of the walker's loop.  Reading a property of
\* null throws a TypeError before anything is counted.
ProcessLine(g, s, line) ==
  IF line.json = "null" THEN [g |-> g, s |-> s, threw |-> TRUE]
  ELSE LET a == TrackTimestamp(g, s, line)
           s1 == CountMessage(a.s, line)
           b == TrackBranch(a.g, s1, line)
           c == CountToolCalls(b.g, b.s, line)
       IN [g |-> TrackModel(c.g, line), s |-> c.s, threw |-> FALSE]

\* new Map entry of lines 227-235 (the display name is left out)
NewProject(path) ==
  [path |-> path, sessions |-> 0, messages |-> 0, toolCalls |-> 0,
   branches |-> <<>>, lastActivity |-> 0]

\* Set.prototype.add on an insertion-ordered set
SetAdd(set, x) == IF \E i \in 1..Len(set) : set[i] = x THEN set ELSE Append(set, x)

\* lines 320-329
UpdateProject(project, s) ==
  [project EXCEPT
     !.sessions = @ + 1,
     !.messages = @ + s.sessionMessages,
     !.toolCalls = @ + s.sessionToolCalls,
     !.branches = IF s.branch # <<>> THEN SetAdd(@, s.branch) ELSE @,
     !.lastActivity = IF s.sessionEnd # 0 /\ (@ = 0 \/ s.sessionEnd > @)
                      THEN s.sessionEnd ELSE @]

\* the loop of lines 261-318 over a whole file, stopping at a throw
RECURSIVE WalkLines(_, _, _)
WalkLines(lines, g, s) ==
  IF lines = <<>> THEN [g |-> g, s |-> s, threw |-> FALSE]
  ELSE LET r == ProcessLine(g, s, Head(lines))
       IN IF r.threw THEN r ELSE WalkLines(Tail(lines), r.g, r.s)

\* processSession(lines, filename, project) with a project
processSession(lines, g, project) ==
  LET r == WalkLines(lines, g, InitialSession)
  IN [g |-> r.g, s |-> r.s, threw |-> r.threw,
      project |-> IF r.threw THEN project ELSE UpdateProject(project, r.s)]

(***************************************************************************)
(* The line-delimited parsers.  A raw line is [text, value]: text is        *)
(* "json" (JSON.parse succeeds and gives value), "bad" (JSON.parse throws,  *)
(* such as {bad json) or "blank" (empty or white space).                    *)
(***************************************************************************)
RawJson(value) == [text |-> "json", value |-> value]

RawBad == [text |-> "bad", value |-> JsonNull]

RawBlank == [text |-> "blank", value |-> JsonNull]

\* part_000 lines 36-49 on a readable file
RECURSIVE parseJsonl(_)
parseJsonl(content) ==
  IF content = <<>> THEN <<>>
  ELSE LET line == Head(content)
       IN (IF line.text = "json" THEN <<line.value>> ELSE <<>>)
          \o parseJsonl(Tail(content))

\* Array.prototype.filter
Filter(arr, keep) ==
  LET Kept(x) == x \in keep IN SelectSeq(arr, Kept)

\* a parser that keeps the null of a line that fails to parse
parseJSONL_keepNull(content) ==
  LET nonBlank == Filter(content, {l \in {content[i] : i \in 1..Len(content)} : l.text # "blank"})
  IN [i \in 1..Len(nonBlank) |->
        IF nonBlank[i].text = "json" THEN nonBlank[i].value ELSE JsonNull]

\* server.js lines 19-26 (and generate-data.js lines 15-22) on a readable
\* file: blank lines are filtered out, a line that fails to parse maps to
\* null, and filter(Boolean) drops every falsy value
parseJSONL(content) ==
  LET nonBlank == Filter(content, {l \in {content[i] : i \in 1..Len(content)} : l.text # "blank"})
      mapped == [i \in 1..Len(nonBlank) |->
                   IF nonBlank[i].text = "json" THEN nonBlank[i].value ELSE JsonNull]
  IN Filter(mapped, {v \in {mapped[i] : i \in 1..Len(mapped)} : Truthy(v)})

\* server.js lines 72-74 over the entries of one file: the messages and the
\* branches it adds to the project's totals
RECURSIVE ServerWalk(_, _)
ServerWalk(entries, acc) ==
  IF entries = <<>> THEN acc
  ELSE LET entry == Head(entries)
       IN ServerWalk(Tail(entries),
            [totalMessages |-> acc.totalMessages + (IF IsMessage(entry) THEN 1 ELSE 0),
             branches |-> IF entry.gitBranch # <<>> THEN SetAdd(acc.branches, entry.gitBranch)
                          ELSE acc.branches])

(***************************************************************************)
(* Inputs: model identifiers, tool and branch names, session lines and     *)
(* usage caches.                                                           *)
(***************************************************************************)
M_opus == <<"c","l","a","u","d","e","-","o","p","u","s","-","4","-","5","-","2","0","2","5","1","1","0","1">>
M_sonnet == <<"c","l","a","u","d","e","-","s","o","n","n","e","t","-","4","-","5","-","2","0","2","5","0","9","2","9">>
M_opus41 == <<"c","l","a","u","d","e","-","o","p","u","s","-","4","-","1">>
M_other == <<"g","p","t","-","4","o">>
M_OpusCaps == <<"O","p","u","s","-","l","e","g","a","c","y">>
T_Read == <<"R","e","a","d">>
T_Bash == <<"B","a","s","h">>
B_main == <<"m","a","i","n">>
B_dev == <<"d","e","v">>
B_42 == <<"4","2">>
K_9 == <<"9">>
K_09 == <<"0","9">>
K_23 == <<"2","3">>
K_24 == <<"2","4">>
K_26 == <<"2","6">>
K_x == <<"x">>
K_m1 == <<"-","1">>

ToolUse(name) == [type |-> S_tool_use, name |-> name]

TextBlock == [type |-> S_text, name |-> <<>>]

Blocks(bs) == [kind |-> "array", blocks |-> bs]

StringContent == [kind |-> "string", blocks |-> <<>>]

\* The records session files are made of.  125 and 150 are inside the
\* retention window, 100 is its first hour, 99 the hour before it.
Records ==
  { Rec(125, S_user, B_main, StringContent, <<>>),
    Rec(100, S_assistant, B_42, Blocks(<<ToolUse(T_Read), TextBlock, ToolUse(<<>>)>>), M_opus),
    Rec(99, S_assistant, <<>>, Blocks(<<ToolUse(S_constructor)>>), M_sonnet),
    Rec(0, S_user, B_dev, Blocks(<<ToolUse(T_Bash)>>), <<>>),
    Rec(150, S_system, B_main, NoContent, M_other) }

\* The lines session files are made of.
RawLines ==
  {RawJson(r) : r \in Records} \cup {RawJson(JsonNull), RawBad, RawBlank}

CacheUsage(i, o, cr, cw) ==
  [inputTokens |-> i, outputTokens |-> o, cacheReadInputTokens |-> cr,
   cacheCreationInputTokens |-> cw]

Prop(k, v) == [k |-> k, v |-> v]

NoDaily == [kind |-> "absent", items |-> <<>>]

Day(date, messages, sessions, tools) ==
  [date |-> date, messageCount |-> messages, sessionCount |-> sessions,
   toolCallCount |-> tools]

\* a stats-cache.json that parses to an object
Cache(sessions, messages, hourCounts, modelUsage, dailyActivity) ==
  [state |-> "ok", totalSessions |-> sessions, totalMessages |-> messages,
   hourCounts |-> hourCounts, modelUsage |-> modelUsage,
   dailyActivity |-> dailyActivity]

\* a stats-cache.json that is missing ("missing"), is no JSON ("invalid") or
\* holds the JSON value null ("null")
NoCache(state) == [Cache(0, 0, <<>>, <<>>, NoDaily) EXCEPT !.state = state]

StatsCaches ==
  { NoCache("missing"), NoCache("invalid"),
    Cache(2, 5, <<Prop(K_9, 2), Prop(K_23, 1)>>,
          <<Prop(M_opus, CacheUsage(1, 2, 0, 1))>>,
          [kind |-> "array", items |-> <<Day(5, 5, 2, 3)>>]),
    Cache(1, 3, <<Prop(K_26, 3), Prop(K_x, 1)>>,
          <<Prop(M_opus, CacheUsage(1, 1, 1, 1)), Prop(M_opus41, CacheUsage(2, 0, 0, 0)),
            Prop(M_OpusCaps, CacheUsage(1, 0, 0, 0))>>,
          NoDaily),
    Cache(3, 4, <<Prop(K_09, 4), Prop(K_9, 2), Prop(K_m1, 1)>>,
          <<Prop(M_sonnet, CacheUsage(0, 3, 2, 0)), Prop(M_other, CacheUsage(1, 0, 0, 2))>>,
          [kind |-> "object", items |-> <<>>]) }

(***************************************************************************)
(* The comprehensive generator: loading the cache (lines 117-197).         *)
(***************************************************************************)
\* arr[idx] = val on an array: a negative or NaN index sets a property that is
\* no element; an index past the end extends the array, leaving holes
ArraySet(arr, idx, val) ==
  IF idx.nan \/ idx.v < 0 THEN arr
  ELSE IF idx.v < Len(arr) THEN [arr EXCEPT ![idx.v + 1] = val]
  ELSE [i \in 1..(idx.v + 1) |->
          IF i <= Len(arr) THEN arr[i] ELSE IF i = idx.v + 1 THEN val ELSE -1]

\* lines 137-141
RECURSIVE MergeHourCounts(_, _)
MergeHourCounts(hourly, entries) ==
  IF entries = <<>> THEN hourly
  ELSE MergeHourCounts(ArraySet(hourly, ParseInt(Head(entries).k), Head(entries).v),
                       Tail(entries))

\* lines 144-161; the assignment of line 148 to the key __proto__ adds no
\* entry: it makes the new usage record the prototype of data.modelUsage
RECURSIVE MergeModelUsage(_, _)
MergeModelUsage(data, entries) ==
  IF entries = <<>> THEN data
  ELSE LET model == Head(entries).k
           usage == Head(entries).v
           record == [inputTokens |-> usage.inputTokens,
                      outputTokens |-> usage.outputTokens,
                      cacheRead |-> usage.cacheReadInputTokens,
                      cacheWrite |-> usage.cacheCreationInputTokens,
                      sessions |-> 0]
           d1 == [data EXCEPT
                    !.modelUsage = JsSet(@, ShortName(model), record),
                    !.modelUsageProto =
                       IF ShortName(model) = S_proto THEN <<record>> ELSE @,
                    !.totalTokens.input = @ + usage.inputTokens,
                    !.totalTokens.output = @ + usage.outputTokens,
                    !.totalTokens.cacheRead = @ + usage.cacheReadInputTokens,
                    !.totalTokens.cacheWrite = @ + usage.cacheCreationInputTokens]
       IN MergeModelUsage(d1, Tail(entries))

\* reduce((sum, d) => sum + (d.toolCallCount || 0), 0)
RECURSIVE SumToolCalls(_)
SumToolCalls(items) ==
  IF items = <<>> THEN 0 ELSE Head(items).toolCallCount + SumToolCalls(Tail(items))

\* lines 118-197: the try block; a cache that cannot be read or parsed throws
\* at line 119, the value null at line 121, a dailyActivity that is no array
\* at line 165, and what was assigned before the throw stays
LoadStatsCache(data, statsCache) ==
  IF statsCache.state # "ok" THEN data
  ELSE LET d1 == [data EXCEPT !.totalSessions = statsCache.totalSessions,
                              !.totalMessages = statsCache.totalMessages]
           d2 == [d1 EXCEPT !.hourlyActivity =
                    MergeHourCounts(@, ObjectEntries(statsCache.hourCounts))]
           d3 == MergeModelUsage(d2, ObjectEntries(statsCache.modelUsage))
       IN IF statsCache.dailyActivity.kind = "array"
          THEN [d3 EXCEPT !.totalToolCalls = SumToolCalls(statsCache.dailyActivity.items)]
          ELSE d3

(***************************************************************************)
(* The comprehensive generator: building the output (lines 332-378).       *)
(***************************************************************************)
ToolTopN == 20

BranchTopN == 15

ProjectTopN == 10

ProjectBranchTopN == 5

\* PRICING (lines 27-31), in hundredths of a dollar per million tokens, so
\* that every rate is an integer
PRICING ==
  [sonnet |-> [input |-> 300, output |-> 1500, cacheRead |-> 30, cacheWrite |-> 375],
   opus |-> [input |-> 1500, output |-> 7500, cacheRead |-> 150, cacheWrite |-> 1875],
   default |-> [input |-> 300, output |-> 1500, cacheRead |-> 30, cacheWrite |-> 375]]

\* a row chosen by the identifier's lower-case opus
PricingFor_lowercase(model) == IF Includes(model, S_opus) THEN PRICING.opus ELSE PRICING.default

\* line 366
PricingFor(model) == IF Includes(model, S_Opus) THEN PRICING.opus ELSE PRICING.default

\* lines 367-371, in units of 1e-8 dollars: (tokens / 1e6) * rate
ModelCost(model, usage) ==
  LET pricing == PricingFor(model)
  IN usage.inputTokens * pricing.input + usage.outputTokens * pricing.output
     + usage.cacheRead * pricing.cacheRead + usage.cacheWrite * pricing.cacheWrite

\* lines 365-373
RECURSIVE EstimatedCost(_)
EstimatedCost(entries) ==
  IF entries = <<>> THEN 0
  ELSE ModelCost(Head(entries).k, Head(entries).v) + EstimatedCost(Tail(entries))

\* lines 333-339 and 342-348: the outcomes of sort, slice and reduce
TopCounts(counts, n) ==
  {FromEntries(SliceTo(sorted, n)) : sorted \in SortByCountDesc(ObjectEntries(counts))}

\* lines 351-362: map, filter, the stable sort by sessions, slice
BuildProjects(projectMap) ==
  LET listed == {i \in 1..Len(projectMap) : projectMap[i].sessions > 0}
      rank == [i \in listed |-> (0 - projectMap[i].sessions) * (Len(projectMap) + 1) + i]
      order == OrderByKey(listed, rank)
      shaped == [i \in 1..Len(order) |->
                   [projectMap[order[i]] EXCEPT !.branches = SliceTo(@, ProjectBranchTopN)]]
  IN SliceTo(shaped, ProjectTopN)

\* Math.round(a / b) for a >= 0, b > 0
RoundDiv(a, b) == (2 * a + b) \div (2 * b)

\* lines 376-378
AverageSessionLength(data) ==
  IF data.totalSessions > 0 THEN RoundDiv(data.totalMessages, data.totalSessions) ELSE 0

(***************************************************************************)
(* The comprehensive generator as a state machine.                         *)
(***************************************************************************)
\* the directory entries, files and lines one run reads
MaxReads == 5

VARIABLES
  \* the comprehensive generator
  pc,          \* where the script is: idle, start, scan, entries, files, lines, build, done
  data,        \* data, toolCounts, branchCounts, allSessionDates
  session,     \* the locals of the running processSession
  projectMap,  \* the Map of projects, in insertion order
  cur,         \* the loops' positions: entry, project, directory listing, file
  artifact,    \* public/data.json
  seen,        \* what the run has read so far (not part of the script)
  \* one session file through the parsers and walkers
  file,        \* the lines of a session file
  fpc,         \* idle, new, walked, edited
  walked,      \* what the parsers and walkers make of file
  edited,      \* file with a malformed line inserted
  rewalked,    \* what the parsers and walkers make of edited
  \* the server and generate-data.js
  fs,          \* ~/.claude as the handler or script finds it
  request,     \* the request handled last
  response,    \* its response
  hpc,         \* the running handler's next system call; idle when none runs
  view,        \* what the running handler has read so far
  now,         \* the clock, in hours since the epoch
  step,        \* what happened last: none, reading (a handler runs), request
               \* (a response), torn (a response, the files or the time having
               \* changed under its handler), world (files or clock)
  pinned,      \* an earlier exchange kept for comparison (not part of the server)
  genPc,       \* generate-data.js: idle, start, scan, build, done, crashed
  genOut,      \* generate-data.js: public/data.json
  \* the cost estimate
  cpc,         \* idle, new, estimated
  usageIn,     \* the cache's modelUsage
  estimate,    \* the estimates made of it
  \* the top-N lists
  rpc,         \* idle, new, ranked
  counted,     \* toolCounts or branchCounts, and the Map of projects, after a scan
  emitted      \* toolUsage or gitBranches, and projects, as written

batchVars == <<pc, data, session, projectMap, cur, artifact, seen>>

fileVars == <<file, fpc, walked, edited, rewalked>>

serverVars == <<fs, request, response, hpc, view, now, step, pinned>>

genVars == <<genPc, genOut>>

costVars == <<cpc, usageIn, estimate>>

rankVars == <<rpc, counted, emitted>>

vars == <<batchVars, fileVars, serverVars, genVars, costVars, rankVars>>

NoArtifact ==
  [written |-> FALSE, toolUsage |-> <<>>, gitBranches |-> <<>>, projects |-> <<>>,
   estimatedCostUSD |-> 0, averageSessionLength |-> 0, data |-> InitialData]

InitialCur ==
  [entries |-> 0, project |-> 0, listing |-> <<>>, file |-> 0, readable |-> FALSE]

InitialSeen ==
  [cache |-> "none", reads |-> 0, inWindow |-> 0, toolCalls |-> 0,
   hourlyAfterCache |-> InitialData.hourlyActivity, jsonl |-> <<>>,
   aborted |-> FALSE, cacheMessages |-> 0, sessionRecords |-> 0,
   projectRecords |-> 0]

BatchInit ==
  /\ pc = "start"
  /\ data = InitialData
  /\ session = InitialSession
  /\ projectMap = <<>>
  /\ cur = InitialCur
  /\ artifact = NoArtifact
  /\ seen = InitialSeen

BatchIdle ==
  /\ pc = "idle"
  /\ data = InitialData
  /\ session = InitialSession
  /\ projectMap = <<>>
  /\ cur = InitialCur
  /\ artifact = NoArtifact
  /\ seen = InitialSeen

\* lines 117-197
LoadCache ==
  /\ pc = "start"
  /\ \E statsCache \in StatsCaches :
       /\ data' = LoadStatsCache(data, statsCache)
       /\ seen' = [seen EXCEPT !.cache = statsCache.state,
                               !.hourlyAfterCache = data'.hourlyActivity,
                               !.cacheMessages = IF statsCache.state = "ok"
                                                 THEN statsCache.totalMessages ELSE 0]
  /\ pc' = "scan"
  /\ UNCHANGED <<session, projectMap, cur, artifact>>
  /\ UNCHANGED <<fileVars, serverVars, genVars, costVars, rankVars>>

\* line 207: readdirSync(projectsDir) lists the directory or throws
OpenProjectsDir ==
  /\ pc = "scan"
  /\ \E listed \in BOOLEAN :
       /\ pc' = IF listed THEN "entries" ELSE "build"
       /\ seen' = [seen EXCEPT !.aborted = ~listed]
  /\ UNCHANGED <<data, session, projectMap, cur, artifact>>
  /\ UNCHANGED <<fileVars, serverVars, genVars, costVars, rankVars>>

\* what readdirSync gives for a project's directory: session files and others
Listings == {<<>>, <<"jsonl">>, <<"other", "jsonl">>, <<"jsonl", "jsonl">>}

JsonlCount(listing) == Cardinality({i \in 1..Len(listing) : listing[i] = "jsonl"})

\* lines 209-247: the next entry of the projects directory.  statSync throws
\* on a broken entry; a plain file is a session when its name ends in .jsonl;
\* a directory becomes a project and is listed (readdirSync may throw).
NextEntry ==
  /\ pc = "entries"
  /\ \/ /\ pc' = "build"
        /\ UNCHANGED <<cur, session, projectMap, seen>>
     \/ /\ seen.reads < MaxReads
        /\ \E kind \in {"broken", "other", "file", "unreadableFile", "directory", "unreadableDirectory"} :
             CASE kind = "broken" ->
                    /\ pc' = "build"
                    /\ seen' = [seen EXCEPT !.aborted = TRUE, !.reads = @ + 1]
                    /\ cur' = [cur EXCEPT !.entries = @ + 1]
                    /\ UNCHANGED <<session, projectMap>>
               [] kind = "other" ->
                    /\ pc' = "entries"
                    /\ cur' = [cur EXCEPT !.entries = @ + 1]
                    /\ seen' = [seen EXCEPT !.reads = @ + 1]
                    /\ UNCHANGED <<session, projectMap>>
               [] kind \in {"file", "unreadableFile"} ->
                    /\ pc' = "lines"
                    /\ session' = InitialSession
                    /\ cur' = [cur EXCEPT !.entries = @ + 1, !.project = 0,
                                          !.readable = (kind = "file")]
                    /\ seen' = [seen EXCEPT !.reads = @ + 1]
                    /\ UNCHANGED projectMap
               [] kind = "unreadableDirectory" ->
                    /\ pc' = "build"
                    /\ projectMap' = Append(projectMap, NewProject(cur.entries + 1))
                    /\ seen' = [seen EXCEPT !.aborted = TRUE, !.reads = @ + 1, !.jsonl = Append(@, 0)]
                    /\ cur' = [cur EXCEPT !.entries = @ + 1]
                    /\ UNCHANGED session
               [] kind = "directory" ->
                    \E listing \in Listings :
                      /\ pc' = "files"
                      /\ projectMap' = Append(projectMap, NewProject(cur.entries + 1))
                      /\ seen' = [seen EXCEPT !.reads = @ + 1,
                                              !.jsonl = Append(@, JsonlCount(listing))]
                      /\ cur' = [cur EXCEPT !.entries = @ + 1,
                                            !.project = Len(projectMap) + 1,
                                            !.listing = listing, !.file = 0]
                      /\ UNCHANGED session
  /\ UNCHANGED <<data, artifact>>
  /\ UNCHANGED <<fileVars, serverVars, genVars, costVars, rankVars>>

\* lines 240-246: the next file of the project's directory; parseJsonl gives no
\* lines for a file that cannot be read
NextFile ==
  /\ pc = "files"
  /\ IF cur.file = Len(cur.listing)
     THEN /\ pc' = "entries"
          /\ cur' = [InitialCur EXCEPT !.entries = cur.entries]
          /\ UNCHANGED session
          /\ UNCHANGED seen
     ELSE IF cur.listing[cur.file + 1] = "other"
     THEN /\ pc' = "files"
          /\ cur' = [cur EXCEPT !.file = @ + 1]
          /\ UNCHANGED <<session, seen>>
     ELSE \E readable \in BOOLEAN :
          /\ seen.reads < MaxReads
          /\ pc' = "lines"
          /\ session' = InitialSession
          /\ cur' = [cur EXCEPT !.file = @ + 1, !.readable = readable]
          /\ seen' = [seen EXCEPT !.reads = @ + 1]
  /\ UNCHANGED <<data, projectMap, artifact>>
  /\ UNCHANGED <<fileVars, serverVars, genVars, costVars, rankVars>>

ToolUseBlocks(line) ==
  IF line.type = S_assistant /\ line.content.kind = "array"
  THEN Cardinality({i \in 1..Len(line.content.blocks) :
                      line.content.blocks[i].type = S_tool_use})
  ELSE 0

\* lines 40-46 and 261-318: the next line of the session file is parsed and,
\* unless it is blank or fails to parse, walked.  A throw leaves the scan
\* (the catch of line 250).
ReadLine ==
  /\ pc = "lines"
  /\ cur.readable
  /\ seen.reads < MaxReads
  /\ \E raw \in RawLines :
       LET parsed == parseJsonl(<<raw>>)
       IN IF parsed = <<>>
          THEN /\ seen' = [seen EXCEPT !.reads = @ + 1]
               /\ UNCHANGED <<pc, data, session>>
          ELSE LET line == parsed[1]
                   r == ProcessLine(data, session, line)
               IN /\ data' = r.g
                  /\ session' = r.s
                  /\ pc' = IF r.threw THEN "build" ELSE "lines"
                  /\ seen' = [seen EXCEPT
                       !.reads = @ + 1,
                       !.aborted = r.threw,
                       !.inWindow = @ + (IF line.timestamp >= SIX_MONTHS_AGO THEN 1 ELSE 0),
                       !.sessionRecords = @ + (IF line.type \in {S_user, S_assistant}
                                               THEN 1 ELSE 0),
                       !.toolCalls = @ + ToolUseBlocks(line)]
  /\ UNCHANGED <<projectMap, cur, artifact>>
  /\ UNCHANGED <<fileVars, serverVars, genVars, costVars, rankVars>>

\* lines 320-329, at the end of the file
EndSession ==
  /\ pc = "lines"
  /\ IF cur.project = 0
     THEN /\ pc' = "entries"
          /\ UNCHANGED projectMap
     ELSE /\ pc' = "files"
          /\ projectMap' = [projectMap EXCEPT ![cur.project] = UpdateProject(@, session)]
  /\ session' = InitialSession
  /\ cur' = [cur EXCEPT !.readable = FALSE]
  /\ seen' = [seen EXCEPT
       !.projectRecords = @ + (IF cur.project = 0 THEN 0 ELSE seen.sessionRecords),
       !.sessionRecords = 0]
  /\ UNCHANGED <<data, artifact>>
  /\ UNCHANGED <<fileVars, serverVars, genVars, costVars, rankVars>>

\* lines 332-429
BuildAndWrite ==
  /\ pc = "build"
  /\ \E toolUsage \in TopCounts(data.toolCounts, ToolTopN),
        gitBranches \in TopCounts(data.branchCounts, BranchTopN) :
       LET d == [data EXCEPT !.averageSessionLength = AverageSessionLength(data)]
       IN /\ data' = d
          /\ artifact' = [written |-> TRUE, toolUsage |-> toolUsage,
                          gitBranches |-> gitBranches,
                          projects |-> BuildProjects(projectMap),
                          estimatedCostUSD |-> EstimatedCost(ObjectEntries(data.modelUsage)),
                          averageSessionLength |-> d.averageSessionLength,
                          data |-> d]
  /\ pc' = "done"
  /\ UNCHANGED <<session, projectMap, cur, seen>>
  /\ UNCHANGED <<fileVars, serverVars, genVars, costVars, rankVars>>

BatchNext ==
  \/ LoadCache
  \/ OpenProjectsDir
  \/ NextEntry
  \/ NextFile
  \/ ReadLine
  \/ EndSession
  \/ BuildAndWrite

(***************************************************************************)
(* One session file through the parsers and the walkers.                   *)
(***************************************************************************)
MaxLines == 3

\* the lines of the files walked here: records, other JSON values, a line
\* that fails to parse and a blank line
FileLines ==
  RawLines \cup {RawJson(JsonNumber), RawJson(JsonFalsy)}

Files == UNION {[1..n -> FileLines] : n \in 0..MaxLines}

\* what the two scripts derive from one readable file
Derive(content) ==
  [lines |-> parseJsonl(content),
   batch |-> processSession(parseJsonl(content), InitialData, NewProject(1)),
   entries |-> parseJSONL(content),
   server |-> ServerWalk(parseJSONL(content), [totalMessages |-> 0, branches |-> <<>>])]

NotWalked == Derive(<<>>)

FileIdle ==
  /\ file = <<>>
  /\ fpc = "idle"
  /\ walked = NotWalked
  /\ edited = <<>>
  /\ rewalked = NotWalked

FileInit ==
  /\ file \in Files
  /\ fpc = "new"
  /\ walked = NotWalked
  /\ edited = <<>>
  /\ rewalked = NotWalked

\* parseJsonl + processSession, and parseJSONL + the per-entry loop
WalkFile ==
  /\ fpc = "new"
  /\ walked' = Derive(file)
  /\ fpc' = "walked"
  /\ UNCHANGED <<file, edited, rewalked>>
  /\ UNCHANGED <<batchVars, serverVars, genVars, costVars, rankVars>>

InsertAt(content, pos, line) ==
  SubSeq(content, 1, pos) \o <<line>> \o SubSeq(content, pos + 1, Len(content))

\* the same file with a line such as {bad json inserted, walked again
WalkEdited ==
  /\ fpc = "walked"
  /\ \E pos \in 0..Len(file) :
       /\ edited' = InsertAt(file, pos, RawBad)
       /\ rewalked' = Derive(edited')
  /\ fpc' = "edited"
  /\ UNCHANGED <<file, walked>>
  /\ UNCHANGED <<batchVars, serverVars, genVars, costVars, rankVars>>

FileNext ==
  \/ WalkFile
  \/ WalkEdited

(***************************************************************************)
(* The server (src/server.js).  ~/.claude holds the usage cache, the        *)
(* history log and at most one entry p under projects/, with at most a      *)
(* session file s.jsonl and its agent-named file agent-s.jsonl.             *)
(***************************************************************************)
DefaultLimit == 100

MaxHistory == 3

Q_0 == <<"0">>
Q_1 == <<"1">>
Q_2 == <<"2">>
Q_m2 == <<"-","2">>
Q_abc == <<"a","b","c">>
Q_2abc == <<"2","a","b","c">>
Q_undefined == <<"u","n","d","e","f","i","n","e","d">>

\* the limit query parameter; an absent one reaches parseInt as undefined
Limits == {Q_undefined, Q_abc, Q_2abc, Q_0, Q_m2, Q_1, Q_2}

HistEntry(ts, id) == [json |-> "object", timestamp |-> ts, sessionId |-> id]

\* A history log: line i holds a record whose sessionId is i, with the
\* timestamp stamps[i]; -2 stands for a line that fails to parse.
LogLines(stamps) ==
  [i \in 1..Len(stamps) |->
     IF stamps[i] = -2 THEN RawBad ELSE RawJson(HistEntry(stamps[i], i))]

\* no timestamp, a timestamp that is no date, day 1, day 2 (twice), a bad line
HistStamps == {0, -1, 30, 50, 60, -2}

\* a log longer than the default limit, one record a day
LongLog == [i \in 1..(DefaultLimit + 1) |-> RawJson(HistEntry(24 * i, i))]

HistoryLogs ==
  {LogLines(st) : st \in UNION {[1..n -> HistStamps] : n \in 0..MaxHistory}} \cup {LongLog}

History(state, lines) == [state |-> state, lines |-> lines]

SessionContents ==
  { <<>>,
    <<RawJson(Rec(125, S_user, B_main, StringContent, <<>>)), RawBad,
      RawJson(Rec(150, S_assistant, B_dev, Blocks(<<ToolUse(T_Read)>>), M_opus))>> }

ServerCaches == StatsCaches \cup {NoCache("null")}

\* sessionMtime and agentMtime are the files' modification times, in hours
Fs(cache, projectsDir, project, sessionFile, agentFile, content, history) ==
  [cache |-> cache, projectsDir |-> projectsDir, project |-> project,
   sessionFile |-> sessionFile, agentFile |-> agentFile, content |-> content,
   sessionMtime |-> 200, agentMtime |-> 100, history |-> history]

\* the states of ~/.claude the handlers and generate-data.js are run on
ServerFs ==
  {Fs(c, pd, p, sf, af, sc, h) :
     c \in ServerCaches, pd \in {"ok", "missing"},
     p \in {"directory", "unreadable", "broken", "plainFile", "none"},
     sf \in {"ok", "missing", "unreadable"}, af \in {"ok", "missing"},
     sc \in SessionContents,
     h \in {History("missing", <<>>), History("ok", LogLines(<<30, -1>>))}}

\* the states of ~/.claude /api/history is run on
HistoryFs ==
  {Fs(NoCache("missing"), "ok", "none", "missing", "missing", <<>>, h) :
     h \in {History("missing", <<>>)} \cup {History("ok", l) : l \in HistoryLogs}}

NoRequest == [endpoint |-> "none", limit |-> Q_undefined, project |-> FALSE, sessionId |-> FALSE]

Request(endpoint) == [NoRequest EXCEPT !.endpoint = endpoint]

\* res.json(body)
Ok(body) == [status |-> 200, error |-> FALSE, body |-> body]

\* res.status(status).json({ error: ... })
Fail(status) == [status |-> status, error |-> TRUE, body |-> <<>>]

NoResponse == [status |-> 0, error |-> FALSE, body |-> <<>>]

\* What a running handler has read so far.  A handler reads ~/.claude in
\* several system calls, and another program can rewrite the files between
\* two of them, so each call's result is kept as that call found it:
\*   cache         the cache file's content (readFileSync)
\*   at            the clock (new Date())
\*   projectsDir   readdirSync(PROJECTS_DIR): "ok" or "missing" (it throws)
\*   project       the entry p: "none" not listed, "listed", and after
\*                 statSync "directory", "plainFile" or "broken" (it throws)
\*   listing       readdirSync(projectPath): "none" not called, "ok", "throws"
\*   names         the session files it listed
\*   sessionMtime, agentMtime   statSync(..).mtime, 0 when it threw
\*   sessionRead, agentRead     parseJSONL(..)
\*   sessionExists, agentExists existsSync(..)
\*   history       parseJSONL(HISTORY_FILE)
\*   torn          the files or the time changed after the first read (not
\*                 part of the server)
BlankView ==
  [cache |-> NoCache("missing"), at |-> 0, projectsDir |-> "ok", project |-> "none",
   listing |-> "none", names |-> <<>>, sessionMtime |-> 0, agentMtime |-> 0,
   sessionRead |-> <<>>, agentRead |-> <<>>, sessionExists |-> FALSE,
   agentExists |-> FALSE, history |-> <<>>, torn |-> FALSE]

\* JSON.parse(fs.readFileSync(STATS_CACHE)) throws
CacheThrows(f) == f.cache.state \in {"missing", "invalid"}

\* lines 39-46
StatsHandler(v) == IF CacheThrows(v) THEN Fail(500) ELSE Ok(v.cache)

\* readdirSync(PROJECTS_DIR).filter(d => statSync(..).isDirectory()) throws
DirsThrow(f) == f.projectsDir = "missing" \/ f.project = "broken"

\* the project directories, when that does not throw
Dirs(v) == IF v.project = "directory" THEN <<"p">> ELSE <<>>

\* readdirSync(projectPath).filter(f => f.endsWith('.jsonl')), for a directory
\* that can be listed; readdirSync answers the names in ascending order
SessionFiles(f) ==
  (IF f.agentFile # "missing" THEN <<"agent-s">> ELSE <<>>)
  \o (IF f.sessionFile # "missing" THEN <<"s">> ELSE <<>>)

\* parseJSONL(path): no entries for a file that cannot be read
ReadJSONL(state, content) == IF state = "ok" THEN parseJSONL(content) ELSE <<>>

SessionEntries(v, name) == IF name = "s" THEN v.sessionRead ELSE v.agentRead

\* lines 63-84: the forEach over the session files of a project
RECURSIVE ProjectTotals(_, _, _)
ProjectTotals(v, names, acc) ==
  IF names = <<>> THEN acc
  ELSE ProjectTotals(v, Tail(names), ServerWalk(SessionEntries(v, Head(names)), acc))

\* statSync(sessionPath).mtime
Mtime(v, name) == IF name = "s" THEN v.sessionMtime ELSE v.agentMtime

\* lines 65-83: a file whose statSync throws is skipped by the catch
Statted(v) == LET Found(name) == Mtime(v, name) > 0 IN SelectSeq(v.names, Found)

\* lines 66-69: the latest modification time among the files; 0 is null
RECURSIVE LastActivity(_, _, _)
LastActivity(v, names, acc) ==
  IF names = <<>> THEN acc
  ELSE LastActivity(v, Tail(names),
                    IF acc = 0 \/ Mtime(v, Head(names)) > acc
                    THEN Mtime(v, Head(names)) ELSE acc)

\* lines 49-102
ProjectsHandler(v) ==
  IF DirsThrow(v) THEN Fail(500)
  ELSE IF Dirs(v) = <<>> THEN Ok(<<>>)
  ELSE IF v.listing = "throws" THEN Fail(500)
  ELSE LET totals == ProjectTotals(v, Statted(v), [totalMessages |-> 0, branches |-> <<>>])
       IN Ok(<<[fullPath |-> "p", sessionCount |-> Len(v.names),
               totalMessages |-> totals.totalMessages,
               lastActivity |-> LastActivity(v, Statted(v), 0),
               branches |-> totals.branches]>>)

\* entries.slice(-limit)
SliceLast(entries, limit) ==
  LET len == Len(entries)
      start == IF limit > 0 THEN (IF len - limit > 0 THEN len - limit ELSE 0)
               ELSE IF limit = 0 THEN 0
               ELSE (IF 0 - limit < len THEN 0 - limit ELSE len)
  IN SubSeq(entries, start + 1, len)

\* parseInt(req.query.limit) || 100
LimitOf(query) ==
  LET n == ParseInt(query) IN IF n.nan \/ n.v = 0 THEN DefaultLimit ELSE n.v

\* lines 112-123: the forEach; toISOString throws a RangeError on an Invalid
\* Date.  The dates are the keys of byDate in the order of their first
\* entry, each with its entries in the order of the log.
GroupByDate(entries, acc) ==
  LET n == Len(entries)
      Dated(i) == entries[i].timestamp # 0
      firsts == {i \in 1..n : /\ Dated(i)
                               /\ \A j \in 1..(i - 1) :
                                    Dated(j) => getDateStr(entries[j].timestamp)
                                                  # getDateStr(entries[i].timestamp)}
      IndexOfKey(r) == CHOOSE i \in firsts : Cardinality({j \in firsts : j <= i}) = r
      OnDate(d) == LET Same(e) == e.timestamp # 0 /\ getDateStr(e.timestamp) = d
                   IN SelectSeq(entries, Same)
      Items(d) == [i \in 1..Len(OnDate(d)) |->
                     [timestamp |-> OnDate(d)[i].timestamp, sessionId |-> OnDate(d)[i].sessionId]]
  IN IF \E i \in 1..n : entries[i].timestamp < 0
     THEN [acc EXCEPT !.threw = TRUE]
     ELSE [acc EXCEPT !.byDate =
             [r \in 1..Cardinality(firsts) |->
                [k |-> getDateStr(entries[IndexOfKey(r)].timestamp),
                 v |-> Items(getDateStr(entries[IndexOfKey(r)].timestamp))]]]

\* a truthy primitive among the entries has no timestamp
HistoryEntries(v) ==
  [i \in 1..Len(v.history) |->
     IF v.history[i].json = "object" THEN v.history[i] ELSE HistEntry(0, 0)]

\* lines 105-129
HistoryHandler(v, query) ==
  LET grouped == GroupByDate(SliceLast(HistoryEntries(v), LimitOf(query)),
                             [byDate |-> <<>>, threw |-> FALSE])
  IN IF grouped.threw THEN Fail(500) ELSE Ok(grouped.byDate)

\* a path below projects/p can be followed: p is a directory; one that cannot
\* be listed ("unreadable": readdirSync throws) can still be searched
Searchable(f) == f.projectsDir = "ok" /\ f.project \in {"directory", "unreadable"}

\* fs.existsSync of the session's path and of its agent-named path
SessionExists(f, project, sessionId) ==
  Searchable(f) /\ project /\ sessionId /\ f.sessionFile # "missing"

AgentExists(f, project, sessionId) ==
  Searchable(f) /\ project /\ sessionId /\ f.agentFile # "missing"

\* a handler that answers a session it cannot find with a server fault
SessionHandler_fault(v) ==
  IF ~v.sessionExists /\ ~v.agentExists
  THEN Fail(500)
  ELSE Ok(SessionEntries(v, IF v.sessionExists THEN "s" ELSE "agent-s"))

\* lines 132-152
SessionHandler(v) ==
  IF ~v.sessionExists
  THEN IF v.agentExists
       THEN Ok(SessionEntries(v, "agent-s"))
       ELSE Fail(404)
  ELSE Ok(SessionEntries(v, "s"))

\* e.type === 'user' && e.message
UserMessages(entries) ==
  Cardinality({i \in 1..Len(entries) :
     entries[i].type = S_user
     /\ (entries[i].content.kind # "absent" \/ entries[i].model # <<>>)})

\* 7 * 24 * 60 * 60 * 1000 ms, in hours
SevenDays == 168

\* line 175: stat.mtime > sevenDaysAgo, for a file whose statSync did not throw
IsRecent(v, name) == Mtime(v, name) > 0 /\ Mtime(v, name) > v.at - SevenDays

\* lines 171-190: the session files modified after at minus seven days, in
\* the order of the listing
RecentActivity(v) ==
  LET Recent(name) == IsRecent(v, name)
      recent == SelectSeq(v.names, Recent)
  IN [i \in 1..Len(recent) |->
        [sessionId |-> recent[i],
         messageCount |-> UserMessages(SessionEntries(v, recent[i])),
         lastModified |-> Mtime(v, recent[i])]]

\* lines 196-198: sort((a, b) => new Date(b.lastModified) -
\* new Date(a.lastModified)).slice(0, 20); the sort is stable
RecentSessions(activity) ==
  LET n == Len(activity)
      rank == [i \in 1..n |-> (0 - activity[i].lastModified) * (n + 1) + i]
      order == OrderByKey(1..n, rank)
  IN SliceTo([i \in 1..n |-> activity[order[i]]], 20)

\* lines 155-207; reading stats.dailyActivity of the value null throws
TimelineHandler(v) ==
  IF CacheThrows(v) \/ DirsThrow(v) THEN Fail(500)
  ELSE IF Dirs(v) # <<>> /\ v.listing = "throws" THEN Fail(500)
  ELSE IF v.cache.state = "null" THEN Fail(500)
  ELSE Ok([cachedStats |-> v.cache.dailyActivity.items,
           recentSessions |-> IF Dirs(v) = <<>> THEN <<>>
                              ELSE RecentSessions(RecentActivity(v)),
           hourlyDistribution |-> v.cache.hourCounts])

\* ---- IEEE 754 doubles, as far as lines 217-224 need them ----
\* The costs are JavaScript Numbers.  A natural number of any size is a
\* sequence of limbs in base 1000, least significant first, without leading
\* zeros (zero is <<>>); a positive double is [m, e] standing for m / 2^e.
RECURSIVE BigOfInt(_)
BigOfInt(n) == IF n = 0 THEN <<>> ELSE <<n % 1000>> \o BigOfInt(n \div 1000)

RECURSIVE BigToInt(_)
BigToInt(a) == IF a = <<>> THEN 0 ELSE Head(a) + 1000 * BigToInt(Tail(a))

RECURSIVE BigAddCarry(_, _, _)
BigAddCarry(a, b, carry) ==
  IF a = <<>> /\ b = <<>> THEN (IF carry = 0 THEN <<>> ELSE <<carry>>)
  ELSE LET x == IF a = <<>> THEN 0 ELSE Head(a)
           y == IF b = <<>> THEN 0 ELSE Head(b)
           s == x + y + carry
       IN <<s % 1000>> \o BigAddCarry(IF a = <<>> THEN a ELSE Tail(a),
                                      IF b = <<>> THEN b ELSE Tail(b),
                                      s \div 1000)

BigAdd(a, b) == BigAddCarry(a, b, 0)

\* a * k for 0 < k <= 1000000
RECURSIVE BigMulSmall(_, _, _)
BigMulSmall(a, k, carry) ==
  IF a = <<>> THEN BigOfInt(carry)
  ELSE LET p == Head(a) * k + carry
       IN <<p % 1000>> \o BigMulSmall(Tail(a), k, p \div 1000)

RECURSIVE BigMul(_, _)
BigMul(a, b) ==
  IF a = <<>> \/ b = <<>> THEN <<>>
  ELSE LET rest == BigMul(a, Tail(b))
           low == IF Head(b) = 0 THEN <<>> ELSE BigMulSmall(a, Head(b), 0)
       IN BigAdd(low, IF rest = <<>> THEN <<>> ELSE <<0>> \o rest)

\* quotient and remainder of a by k, for 0 < k <= 2000000; the limbs are
\* taken from the most significant one down
RECURSIVE BigDivSmall(_, _)
BigDivSmall(a, k) ==
  IF a = <<>> THEN [q |-> <<>>, r |-> 0]
  ELSE LET high == BigDivSmall(Tail(a), k)
           part == high.r * 1000 + Head(a)
           digit == part \div k
       IN [q |-> IF high.q = <<>> /\ digit = 0 THEN <<>> ELSE <<digit>> \o high.q,
           r |-> part % k]

\* powers of two and shifts go 19 bits at a time
RECURSIVE BigPow2(_)
BigPow2(n) ==
  IF n <= 19 THEN BigOfInt(2 ^ n)
  ELSE BigMulSmall(BigPow2(n - 19), 2 ^ 19, 0)

RECURSIVE IntBitLength(_)
IntBitLength(n) == IF n = 0 THEN 0 ELSE 1 + IntBitLength(n \div 2)

RECURSIVE BitLength(_)
BitLength(a) ==
  IF Len(a) <= 3 THEN IntBitLength(BigToInt(a))
  ELSE 19 + BitLength(BigDivSmall(a, 2 ^ 19).q)

\* a shifted right by d bits; sticky tells whether a one was shifted out
RECURSIVE ShiftRight(_, _, _)
ShiftRight(a, d, sticky) ==
  IF d = 0 THEN [q |-> a, sticky |-> sticky]
  ELSE LET k == IF d < 19 THEN d ELSE 19
           part == BigDivSmall(a, 2 ^ k)
       IN ShiftRight(part.q, d - k, sticky \/ part.r # 0)

\* the double nearest to (m + fraction) / 2^e, ties to the even significand;
\* sticky tells whether the fraction below m is nonzero
RoundToDouble(m, e, sticky) ==
  LET d == BitLength(m) - 53
  IN IF d <= 0 THEN [m |-> m, e |-> e]
     ELSE LET upper == ShiftRight(m, d - 1, sticky)
              half == BigDivSmall(upper.q, 2)
              odd == BigDivSmall(half.q, 2).r = 1
              up == half.r = 1 /\ (upper.sticky \/ odd)
          IN [m |-> IF up THEN BigAdd(half.q, <<1>>) ELSE half.q, e |-> e - d]

\* tokens / 1000000 as the division gives it: the quotient is taken with
\* 80 bits behind the point, which is more than 53 for every
\* 32-bit count, and rounded once
DivMillion(tokens) ==
  IF tokens = 0 THEN [m |-> <<>>, e |-> 0]
  ELSE LET quot == BigDivSmall(BigMul(BigOfInt(tokens), BigPow2(80)), 1000000)
       IN RoundToDouble(quot.q, 80, quot.r # 0)

DoubleMul(x, y) == RoundToDouble(BigMul(x.m, y.m), x.e + y.e, FALSE)

DoubleAdd(x, y) ==
  LET e == IF x.e > y.e THEN x.e ELSE y.e
  IN RoundToDouble(BigAdd(BigMul(x.m, BigPow2(e - x.e)), BigMul(y.m, BigPow2(e - y.e))),
                   e, FALSE)

\* the literals 15, 75, 1.5, 3 and 0.3 as doubles: 0.3 is
\* 5404319552844595 / 2^54, the others are exact
RateDouble(rate) ==
  CASE rate = 1500 -> [m |-> <<15>>, e |-> 0]
    [] rate = 7500 -> [m |-> <<75>>, e |-> 0]
    [] rate = 150 -> [m |-> <<3>>, e |-> 1]
    [] rate = 300 -> [m |-> <<3>>, e |-> 0]
    [] rate = 30 -> [m |-> <<595, 844, 552, 319, 404, 5>>, e |-> 54]

\* Number.prototype.toFixed(2) in cents: the integer n for which n / 100 - x
\* is nearest to zero, the larger n when two are, that is
\* floor((200 m + 2^e) / 2^(e + 1))
DoubleToFixed2(x) ==
  BigToInt(ShiftRight(BigAdd(BigMulSmall(x.m, 200, 0), BigPow2(x.e)), x.e + 1, FALSE).q)

\* toFixed(2) of a cost whose double is x and whose exact decimal value is
\* amount (in 1e-8 dollars, taken when small tells that it fits the
\* integers).  The double is within a few parts in 10^16 of the amount and
\* the amount is a multiple of 1e-7 dollars, so away from an exact half cent
\* both round to the same cent; at an exact half cent the double decides,
\* and it may lie on either side.
ToFixed2(small, amount, x) ==
  IF small /\ amount % 1000000 # 500000 THEN (amount + 500000) \div 1000000
  ELSE DoubleToFixed2(x)

\* lines 217-224: (tokens / 1000000) * rate, each cost through toFixed(2),
\* and the sum of the three doubles through toFixed(2); rates in 1e-8
\* dollars per token
ServerModelCost(model, usage) ==
  LET opus == Includes(model, S_opus)
      inputRate == IF opus THEN 1500 ELSE 300
      outputRate == IF opus THEN 7500 ELSE 1500
      cacheRate == IF opus THEN 150 ELSE 30
      inputCost == DoubleMul(DivMillion(usage.inputTokens), RateDouble(inputRate))
      outputCost == DoubleMul(DivMillion(usage.outputTokens), RateDouble(outputRate))
      cacheCost == DoubleMul(DivMillion(usage.cacheReadInputTokens), RateDouble(cacheRate))
      inputAmount == usage.inputTokens * inputRate
      outputAmount == usage.outputTokens * outputRate
      cacheAmount == usage.cacheReadInputTokens * cacheRate
      small == /\ usage.inputTokens <= 90000
               /\ usage.outputTokens <= 90000
               /\ usage.cacheReadInputTokens <= 90000
  IN [inputCost |-> ToFixed2(small, inputAmount, inputCost),
      outputCost |-> ToFixed2(small, outputAmount, outputCost),
      cacheCost |-> ToFixed2(small, cacheAmount, cacheCost),
      totalCost |-> ToFixed2(small, inputAmount + outputAmount + cacheAmount,
                             DoubleAdd(DoubleAdd(inputCost, outputCost), cacheCost))]

\* lines 215-227
RECURSIVE ServerModelCosts(_)
ServerModelCosts(entries) ==
  IF entries = <<>> THEN <<>>
  ELSE JsSet(ServerModelCosts(SubSeq(entries, 1, Len(entries) - 1)),
             entries[Len(entries)].k,
             ServerModelCost(entries[Len(entries)].k, entries[Len(entries)].v))

\* lines 210-245; reading stats.modelUsage of the value null throws
SummaryHandler(v) ==
  IF CacheThrows(v) \/ v.cache.state = "null" \/ DirsThrow(v) THEN Fail(500)
  ELSE Ok([totalSessions |-> v.cache.totalSessions,
           totalMessages |-> v.cache.totalMessages,
           projectCount |-> Len(Dirs(v)),
           modelUsage |-> ServerModelCosts(ObjectEntries(v.cache.modelUsage))])

\* ---- the handlers' system calls, one at a time ----
\* the call a handler starts with
FirstRead(endpoint) ==
  CASE endpoint \in {"stats", "timeline", "summary"} -> "cache"
    [] endpoint = "projects" -> "dirs"
    [] endpoint = "history" -> "history"
    [] endpoint = "session" -> "existsSession"

\* the view v after the call at position pos finds the files f and the time
\* at.  The time is read right after the cache (lines 157-158), with no
\* file read in between, and is taken with it.
Observe(v, pos, f, at, req) ==
  CASE pos = "cache" ->
         [v EXCEPT !.cache = f.cache,
                   !.at = IF req.endpoint = "timeline" THEN at ELSE @]
    [] pos = "dirs" ->
         [v EXCEPT !.projectsDir = f.projectsDir,
                   !.project = IF f.projectsDir = "ok" /\ f.project # "none"
                               THEN "listed" ELSE "none"]
    [] pos = "statDir" ->
         [v EXCEPT !.project =
            IF f.projectsDir = "missing" \/ f.project \in {"none", "broken"} THEN "broken"
            ELSE IF f.project = "plainFile" THEN "plainFile" ELSE "directory"]
    [] pos = "list" ->
         IF f.projectsDir = "ok" /\ f.project = "directory"
         THEN [v EXCEPT !.listing = "ok", !.names = SessionFiles(f)]
         ELSE [v EXCEPT !.listing = "throws"]
    [] pos = "statAgent" ->
         [v EXCEPT !.agentMtime =
            IF Searchable(f) /\ f.agentFile # "missing" THEN f.agentMtime ELSE 0]
    [] pos = "readAgent" ->
         [v EXCEPT !.agentRead =
            IF Searchable(f) THEN ReadJSONL(f.agentFile, f.content) ELSE <<>>]
    [] pos = "statSession" ->
         [v EXCEPT !.sessionMtime =
            IF Searchable(f) /\ f.sessionFile # "missing" THEN f.sessionMtime ELSE 0]
    [] pos = "readSession" ->
         [v EXCEPT !.sessionRead =
            IF Searchable(f) THEN ReadJSONL(f.sessionFile, f.content) ELSE <<>>]
    [] pos = "existsSession" ->
         [v EXCEPT !.sessionExists = SessionExists(f, req.project, req.sessionId)]
    [] pos = "existsAgent" ->
         [v EXCEPT !.agentExists = AgentExists(f, req.project, req.sessionId)]
    [] pos = "history" ->
         [v EXCEPT !.history = ReadJSONL(f.history.state, f.history.lines)]

\* the forEach of lines 63 and 171 goes on with s.jsonl when it was listed
AfterAgent(v) ==
  IF \E i \in 1..Len(v.names) : v.names[i] = "s" THEN "statSession" ELSE "idle"

\* a file is read when its statSync did not throw and, for the timeline,
\* when it is recent
WillRead(endpoint, v, name) ==
  IF endpoint = "timeline" THEN IsRecent(v, name) ELSE Mtime(v, name) > 0

\* the call that follows the one at pos, given the view v after it; "idle"
\* when the handler answers (a throw ends it through its catch)
NextRead(req, pos, v) ==
  LET e == req.endpoint
  IN CASE pos = "cache" ->
            IF e = "stats" \/ CacheThrows(v) THEN "idle"
            ELSE IF e = "summary" /\ v.cache.state = "null" THEN "idle"
            ELSE "dirs"
       [] pos = "dirs" ->
            IF v.projectsDir = "missing" \/ v.project = "none" THEN "idle" ELSE "statDir"
       [] pos = "statDir" ->
            IF e = "summary" \/ v.project # "directory" THEN "idle" ELSE "list"
       [] pos = "list" ->
            IF v.listing = "throws" \/ v.names = <<>> THEN "idle"
            ELSE IF Head(v.names) = "agent-s" THEN "statAgent" ELSE "statSession"
       [] pos = "statAgent" ->
            IF WillRead(e, v, "agent-s") THEN "readAgent" ELSE AfterAgent(v)
       [] pos = "readAgent" -> IF e = "session" THEN "idle" ELSE AfterAgent(v)
       [] pos = "statSession" -> IF WillRead(e, v, "s") THEN "readSession" ELSE "idle"
       [] pos = "readSession" -> "idle"
       [] pos = "existsSession" -> IF v.sessionExists THEN "readSession" ELSE "existsAgent"
       [] pos = "existsAgent" -> IF v.agentExists THEN "readAgent" ELSE "idle"
       [] pos = "history" -> "idle"

\* the response of a handler that makes more than one call
LaterAnswer(req, v) ==
  CASE req.endpoint = "projects" -> ProjectsHandler(v)
    [] req.endpoint = "session" -> SessionHandler(v)
    [] req.endpoint = "timeline" -> TimelineHandler(v)
    [] req.endpoint = "summary" -> SummaryHandler(v)

\* the response a handler makes of what it has read
Answer(req, v) ==
  CASE req.endpoint = "stats" -> StatsHandler(v)
    [] req.endpoint = "history" -> HistoryHandler(v, req.limit)
    [] OTHER -> LaterAnswer(req, v)

\* all the calls of a handler on files f that stay as they are, at the time
\* at; after is the view once the call at pos is made
RECURSIVE ReadAll(_, _, _, _, _)
ReadAll(req, pos, v, f, at) ==
  CHOOSE last \in {IF NextRead(req, pos, after) = "idle" THEN after
                   ELSE ReadAll(req, NextRead(req, pos, after), after, f, at) :
                   after \in {Observe(v, pos, f, at, req)}} : TRUE

\* the response to req when nothing changes while it is handled
Handle(req, f, at) == Answer(req, ReadAll(req, FirstRead(req.endpoint), BlankView, f, at))

\* the clock starts at NowStart and advances ClockStep hours at a time, at
\* most MaxTicks times
NowStart == 224

ClockStep == 72

MaxTicks == 1

Nows == {NowStart + k * ClockStep : k \in 0..MaxTicks}

\* the states of ~/.claude that change under the running server
RequestFs ==
  {Fs(c, "ok", "directory", sf, "ok", sc, History("ok", LogLines(<<30, 50>>))) :
     c \in {NoCache("missing"),
            Cache(2, 5, <<Prop(K_9, 2)>>, <<Prop(M_opus, CacheUsage(1, 2, 0, 1))>>, NoDaily)},
     sf \in {"ok", "missing"},
     sc \in {<<RawJson(Rec(125, S_user, B_main, StringContent, <<>>))>>}}

\* an exchange: a request, the files and the time it was handled at, and
\* its response; between tells what happened after it: 0 nothing, 1 the
\* files changed, 2 the files changed and then another request was served
NoPin ==
  [state |-> "off", request |-> NoRequest, fs |-> <<>>, now |-> 0,
   response |-> NoResponse, between |-> 0]

\* pinned after an exchange: the exchange kept so far stays, an exchange is
\* kept once when none is, and nothing is kept where none is compared
Pin(p, req, f, at, resp) ==
  IF p.state = "off" THEN {p}
  ELSE IF p.state = "empty"
  THEN {p, [state |-> "set", request |-> req, fs |-> f, now |-> at,
            response |-> resp, between |-> 0]}
  ELSE {[p EXCEPT !.between = IF @ = 1 /\ req # p.request THEN 2 ELSE @]}

\* pinned after an exchange that the files or the time changed under: such
\* an exchange is not kept
PinTorn(p, req) ==
  IF p.state = "set"
  THEN [p EXCEPT !.between = IF @ = 1 /\ req # p.request THEN 2 ELSE @]
  ELSE p

\* the handler of req has made the call at pos and has read v: it answers
\* resp when that was its last call and goes on to the next one otherwise
Advance(req, pos, v, resp) ==
  LET next == NextRead(req, pos, v)
  IN IF next # "idle"
     THEN [hpc |-> next, view |-> v, response |-> NoResponse, step |-> "reading",
           pins |-> {pinned}]
     ELSE [hpc |-> "idle", view |-> BlankView, response |-> resp,
           step |-> IF v.torn THEN "torn" ELSE "request",
           pins |-> IF v.torn THEN {PinTorn(pinned, req)}
                    ELSE Pin(pinned, req, fs, now, resp)]

ServerIdle ==
  /\ fs = Fs(NoCache("missing"), "missing", "none", "missing", "missing", <<>>,
             History("missing", <<>>))
  /\ request = NoRequest
  /\ response = NoResponse
  /\ hpc = "idle"
  /\ view = BlankView
  /\ now = NowStart
  /\ step = "none"
  /\ pinned = NoPin

ServerInit ==
  /\ fs \in ServerFs
  /\ request = NoRequest
  /\ response = NoResponse
  /\ hpc = "idle"
  /\ view = BlankView
  /\ now \in Nows
  /\ step = "none"
  /\ pinned = NoPin

HistoryInit ==
  /\ fs \in HistoryFs
  /\ request = NoRequest
  /\ response = NoResponse
  /\ hpc = "idle"
  /\ view = BlankView
  /\ now = NowStart
  /\ step = "none"
  /\ pinned = NoPin

\* the server while ~/.claude changes under it and time passes
RequestsInit ==
  /\ fs \in RequestFs
  /\ request = NoRequest
  /\ response = NoResponse
  /\ hpc = "idle"
  /\ view = BlankView
  /\ now = NowStart
  /\ step = "none"
  /\ pinned = [NoPin EXCEPT !.state = "empty"]

\* A request is taken up when no handler runs (the handlers are synchronous:
\* one runs to its end before the next starts) and the step that takes it up
\* makes the handler's first call; HandlerStep makes each later call.
\* server.js has no write call and no variable that outlives a handler, so a
\* handler leaves the files and the clock's reading alone.

\* a handler that keeps its last answer and repeats it to the next request
\* for /api/stats
GetStats_cached ==
  /\ hpc = "idle"
  /\ \E req \in {Request("stats")} :
       /\ request' = req
       /\ \E after \in {Advance(req, "cache", v, StatsHandler(v)) :
                          v \in {Observe(BlankView, "cache", fs, now, req)}} :
            /\ hpc' = after.hpc
            /\ view' = after.view
            /\ response' = IF request.endpoint = "stats" /\ response.status = 200
                            THEN response ELSE after.response
            /\ step' = after.step
            /\ pinned' \in Pin(pinned, req, fs, now, response')
  /\ UNCHANGED <<fs, now>>
  /\ UNCHANGED <<batchVars, fileVars, genVars, costVars, rankVars>>

GetStats ==
  /\ hpc = "idle"
  /\ \E req \in {Request("stats")} :
       /\ request' = req
       /\ \E after \in {Advance(req, "cache", v, StatsHandler(v)) :
                          v \in {Observe(BlankView, "cache", fs, now, req)}} :
            /\ hpc' = after.hpc
            /\ view' = after.view
            /\ response' = after.response
            /\ step' = after.step
            /\ pinned' \in after.pins
  /\ UNCHANGED <<fs, now>>
  /\ UNCHANGED <<batchVars, fileVars, genVars, costVars, rankVars>>

GetProjects ==
  /\ hpc = "idle"
  /\ \E req \in {Request("projects")} :
       /\ request' = req
       /\ \E after \in {Advance(req, "dirs", v, ProjectsHandler(v)) :
                          v \in {Observe(BlankView, "dirs", fs, now, req)}} :
            /\ hpc' = after.hpc
            /\ view' = after.view
            /\ response' = after.response
            /\ step' = after.step
            /\ pinned' \in after.pins
  /\ UNCHANGED <<fs, now>>
  /\ UNCHANGED <<batchVars, fileVars, genVars, costVars, rankVars>>

GetHistory ==
  /\ hpc = "idle"
  /\ \E req \in {[Request("history") EXCEPT !.limit = query] : query \in Limits} :
       /\ request' = req
       /\ \E after \in {Advance(req, "history", v, HistoryHandler(v, req.limit)) :
                          v \in {Observe(BlankView, "history", fs, now, req)}} :
            /\ hpc' = after.hpc
            /\ view' = after.view
            /\ response' = after.response
            /\ step' = after.step
            /\ pinned' \in after.pins
  /\ UNCHANGED <<fs, now>>
  /\ UNCHANGED <<batchVars, fileVars, genVars, costVars, rankVars>>

GetSession ==
  /\ hpc = "idle"
  /\ \E req \in {[Request("session") EXCEPT !.project = project, !.sessionId = sessionId] :
                   project \in BOOLEAN, sessionId \in BOOLEAN} :
       /\ request' = req
       /\ \E after \in {Advance(req, "existsSession", v, SessionHandler(v)) :
                          v \in {Observe(BlankView, "existsSession", fs, now, req)}} :
            /\ hpc' = after.hpc
            /\ view' = after.view
            /\ response' = after.response
            /\ step' = after.step
            /\ pinned' \in after.pins
  /\ UNCHANGED <<fs, now>>
  /\ UNCHANGED <<batchVars, fileVars, genVars, costVars, rankVars>>

GetTimeline ==
  /\ hpc = "idle"
  /\ \E req \in {Request("timeline")} :
       /\ request' = req
       /\ \E after \in {Advance(req, "cache", v, TimelineHandler(v)) :
                          v \in {Observe(BlankView, "cache", fs, now, req)}} :
            /\ hpc' = after.hpc
            /\ view' = after.view
            /\ response' = after.response
            /\ step' = after.step
            /\ pinned' \in after.pins
  /\ UNCHANGED <<fs, now>>
  /\ UNCHANGED <<batchVars, fileVars, genVars, costVars, rankVars>>

GetSummary ==
  /\ hpc = "idle"
  /\ \E req \in {Request("summary")} :
       /\ request' = req
       /\ \E after \in {Advance(req, "cache", v, SummaryHandler(v)) :
                          v \in {Observe(BlankView, "cache", fs, now, req)}} :
            /\ hpc' = after.hpc
            /\ view' = after.view
            /\ response' = after.response
            /\ step' = after.step
            /\ pinned' \in after.pins
  /\ UNCHANGED <<fs, now>>
  /\ UNCHANGED <<batchVars, fileVars, genVars, costVars, rankVars>>

\* the running handler's next system call
HandlerStep ==
  /\ hpc # "idle"
  /\ \E after \in {Advance(request, hpc, v, LaterAnswer(request, v)) :
                     v \in {Observe(view, hpc, fs, now, request)}} :
       /\ hpc' = after.hpc
       /\ view' = after.view
       /\ response' = after.response
       /\ step' = after.step
       /\ pinned' \in after.pins
  /\ UNCHANGED <<fs, now, request>>
  /\ UNCHANGED <<batchVars, fileVars, genVars, costVars, rankVars>>

\* another program (Claude Code itself) rewrites ~/.claude, between two
\* requests or between two calls of a running handler
FilesChange ==
  /\ fs' \in RequestFs \ {fs}
  /\ step' = IF hpc = "idle" THEN "world" ELSE step
  /\ view' = IF hpc = "idle" THEN view ELSE [view EXCEPT !.torn = TRUE]
  /\ pinned' = IF pinned.state = "set" /\ pinned.between = 0
                THEN [pinned EXCEPT !.between = 1] ELSE pinned
  /\ UNCHANGED <<request, response, hpc, now>>
  /\ UNCHANGED <<batchVars, fileVars, genVars, costVars, rankVars>>

\* time passes; only the timeline's handler reads the clock
Tick ==
  /\ now + ClockStep <= NowStart + MaxTicks * ClockStep
  /\ now' = now + ClockStep
  /\ step' = IF hpc = "idle" THEN "world" ELSE step
  /\ view' = IF hpc # "idle" /\ request.endpoint = "timeline"
             THEN [view EXCEPT !.torn = TRUE] ELSE view
  /\ UNCHANGED <<fs, request, response, hpc, pinned>>
  /\ UNCHANGED <<batchVars, fileVars, genVars, costVars, rankVars>>

ServerNext ==
  \/ GetStats
  \/ GetProjects
  \/ GetHistory
  \/ GetSession
  \/ GetTimeline
  \/ GetSummary
  \/ HandlerStep

RequestsNext ==
  \/ ServerNext
  \/ FilesChange
  \/ Tick

(***************************************************************************)
(* generate-data.js: generateData() has no try around reading the cache or  *)
(* listing the projects, so a throw there ends the script.                  *)
(***************************************************************************)
NoGenOut == [written |-> FALSE, projects |-> <<>>, totalSessions |-> 0, totalMessages |-> 0]

GenIdle ==
  /\ genPc = "idle"
  /\ genOut = NoGenOut

GenInit ==
  /\ genPc = "start"
  /\ genOut = NoGenOut

\* line 36
GenReadStats ==
  /\ genPc = "start"
  /\ genPc' = IF CacheThrows(fs) THEN "crashed" ELSE "scan"
  /\ UNCHANGED genOut
  /\ UNCHANGED <<batchVars, fileVars, serverVars, costVars, rankVars>>

\* lines 39-69
GenProjects(v) ==
  IF Dirs(v) = <<>> \/ v.names = <<>> THEN <<>>
  ELSE <<[sessionCount |-> Len(v.names),
          totalMessages |->
            ProjectTotals(v, Statted(v), [totalMessages |-> 0, branches |-> <<>>]).totalMessages]>>

\* the script makes the calls of lines 39-60 as /api/projects makes its own
GenScanProjects ==
  /\ genPc = "scan"
  /\ LET v == ReadAll(Request("projects"), "dirs", BlankView, fs, now)
     IN IF DirsThrow(v) \/ v.listing = "throws"
        THEN /\ genPc' = "crashed"
             /\ UNCHANGED genOut
        ELSE /\ genPc' = "build"
             /\ genOut' = [genOut EXCEPT !.projects = GenProjects(v)]
  /\ UNCHANGED <<batchVars, fileVars, serverVars, costVars, rankVars>>

\* lines 71-120: stats.modelUsage of the value null, and .map of a
\* dailyActivity that is no array, throw
GenBuildAndWrite ==
  /\ genPc = "build"
  /\ IF fs.cache.state = "null" \/ fs.cache.dailyActivity.kind = "object"
     THEN /\ genPc' = "crashed"
          /\ UNCHANGED genOut
     ELSE /\ genPc' = "done"
          /\ genOut' = [genOut EXCEPT !.written = TRUE,
                                      !.totalSessions = fs.cache.totalSessions,
                                      !.totalMessages = fs.cache.totalMessages]
  /\ UNCHANGED <<batchVars, fileVars, serverVars, costVars, rankVars>>

GenNext ==
  \/ GenReadStats
  \/ GenScanProjects
  \/ GenBuildAndWrite

(***************************************************************************)
(* The cost estimates of a cache's modelUsage.                             *)
(***************************************************************************)
MaxTokens == 1

\* the token counts grow in steps of this many tokens
TokenStep == 5000

CostModels == {M_opus, M_opus41, M_sonnet, M_other, M_OpusCaps}

NoTokens == CacheUsage(0, 0, 0, 0)

\* one model, or two: an Opus model and an unknown one, two identifiers of one
\* display name, a Sonnet model and a name with a capital Opus; no tokens yet
EmptyUsages ==
  {<<Prop(m, NoTokens)>> : m \in CostModels}
  \cup {<<Prop(p[1], NoTokens), Prop(p[2], NoTokens)>> :
          p \in {<<M_opus, M_other>>, <<M_opus, M_opus41>>, <<M_sonnet, M_OpusCaps>>}}

\* the per-model costs of lines 365-373
ModelCosts(modelUsage) ==
  [i \in 1..Len(modelUsage) |->
     [k |-> modelUsage[i].k, v |-> ModelCost(modelUsage[i].k, modelUsage[i].v)]]

\* part_000 lines 144-161 and 365-373, and server.js lines 215-227
Estimates(usage) ==
  LET d == MergeModelUsage(InitialData, ObjectEntries(usage))
  IN [modelUsage |-> d.modelUsage,
      perModel |-> ModelCosts(ObjectEntries(d.modelUsage)),
      estimatedCostUSD |-> EstimatedCost(ObjectEntries(d.modelUsage)),
      server |-> ServerModelCosts(ObjectEntries(usage))]

NoEstimate == Estimates(<<>>)

CostIdle ==
  /\ cpc = "idle"
  /\ usageIn = <<>>
  /\ estimate = NoEstimate

CostInit ==
  /\ cpc = "new"
  /\ usageIn \in EmptyUsages
  /\ estimate = NoEstimate

EstimateCost ==
  /\ cpc = "new"
  /\ estimate' = Estimates(usageIn)
  /\ cpc' = "estimated"
  /\ UNCHANGED usageIn
  /\ UNCHANGED <<batchVars, fileVars, serverVars, genVars, rankVars>>

TokenCategories ==
  {"inputTokens", "outputTokens", "cacheReadInputTokens", "cacheCreationInputTokens"}

\* the cache counts one more token of one category for one model, and the
\* estimates are made again
AddTokens ==
  /\ cpc = "estimated"
  /\ \E i \in 1..Len(usageIn), cat \in TokenCategories :
       /\ usageIn[i].v[cat] < MaxTokens * TokenStep
       /\ usageIn' = [usageIn EXCEPT ![i].v[cat] = @ + TokenStep]
  /\ estimate' = Estimates(usageIn')
  /\ UNCHANGED cpc
  /\ UNCHANGED <<batchVars, fileVars, serverVars, genVars, rankVars>>

CostNext ==
  \/ EstimateCost
  \/ AddTokens

(***************************************************************************)
(* The top-N lists of lines 332-362 on the frequency maps and project maps *)
(* a scan can leave.                                                       *)
(***************************************************************************)
MaxKeys == 2

MaxCount == 2

RankNames == {T_Read, T_Bash, B_main, B_42}

\* the name of the i-th of many tools: "t" and the decimal digits of i
ToolName(i) == IF i < 10 THEN <<"t", Digits[i + 1]>>
               ELSE <<"t", Digits[(i \div 10) + 1], Digits[(i % 10) + 1]>>

\* more names than any list keeps, counted 1, 2, 3, 1, 2, 3, ..
WideCounts == [i \in 1..(ToolTopN + 1) |-> Prop(ToolName(i), [t |-> "num", n |-> (i % 3) + 1])]

\* objects whose keys were set in some order, each with a positive count
CountMaps ==
  {m \in UNION {[1..n -> {Prop(kc[1], [t |-> "num", n |-> kc[2]]) : kc \in RankNames \X (1..MaxCount)}] : n \in 0..MaxKeys} :
     \A i, j \in 1..Len(m) : i # j => m[i].k # m[j].k}
  \cup {WideCounts}

\* Maps of projects with their session counts; more projects than the list keeps
ProjectMaps ==
  UNION {[1..n -> {[NewProject(0) EXCEPT !.sessions = c] : c \in 0..MaxCount}] : n \in 0..MaxKeys}
  \cup {[i \in 1..(ProjectTopN + 1) |-> [NewProject(i) EXCEPT !.sessions = i % 3]]}

NotRanked == [from |-> "none", limit |-> 0, list |-> <<>>]

RankIdle ==
  /\ rpc = "idle"
  /\ counted = [counts |-> <<>>, projects |-> <<>>]
  /\ emitted = NotRanked

RankInit ==
  /\ rpc = "new"
  /\ \E c \in CountMaps, pm \in ProjectMaps :
       /\ (c = <<>> \/ pm = <<>>)
       /\ counted = [counts |-> c, projects |-> pm]
  /\ emitted = NotRanked

\* lines 333-339
RankTools ==
  /\ rpc = "new"
  /\ \E list \in TopCounts(counted.counts, ToolTopN) :
       emitted' = [from |-> "toolCounts", limit |-> ToolTopN, list |-> ObjectEntries(list)]
  /\ rpc' = "ranked"
  /\ UNCHANGED counted
  /\ UNCHANGED <<batchVars, fileVars, serverVars, genVars, costVars>>

\* lines 342-348
RankBranches ==
  /\ rpc = "new"
  /\ \E list \in TopCounts(counted.counts, BranchTopN) :
       emitted' = [from |-> "branchCounts", limit |-> BranchTopN, list |-> ObjectEntries(list)]
  /\ rpc' = "ranked"
  /\ UNCHANGED counted
  /\ UNCHANGED <<batchVars, fileVars, serverVars, genVars, costVars>>

\* lines 351-362
RankProjects ==
  /\ rpc = "new"
  /\ emitted' = [from |-> "projectMap", limit |-> ProjectTopN,
                 list |-> [i \in 1..Len(BuildProjects(counted.projects)) |->
                             Prop(BuildProjects(counted.projects)[i].path,
                                  [t |-> "num", n |-> BuildProjects(counted.projects)[i].sessions])]]
  /\ rpc' = "ranked"
  /\ UNCHANGED counted
  /\ UNCHANGED <<batchVars, fileVars, serverVars, genVars, costVars>>

RankNext ==
  \/ RankTools
  \/ RankBranches
  \/ RankProjects

(***************************************************************************)
(* Specifications.                                                         *)
(***************************************************************************)
Init == BatchInit /\ FileIdle /\ ServerIdle /\ GenIdle /\ CostIdle /\ RankIdle

Next == BatchNext

\* a run of the comprehensive generator
Spec == Init /\ [][Next]_vars

SpecFileInit == BatchIdle /\ FileInit /\ ServerIdle /\ GenIdle /\ CostIdle /\ RankIdle

\* one session file through the parsers and walkers of the scripts
SpecFile == SpecFileInit /\ [][FileNext]_vars

SpecServerInit == BatchIdle /\ FileIdle /\ ServerInit /\ GenIdle /\ CostIdle /\ RankIdle

\* the server answering requests
SpecServer == SpecServerInit /\ [][ServerNext]_vars

SpecRequestsInit == BatchIdle /\ FileIdle /\ RequestsInit /\ GenIdle /\ CostIdle /\ RankIdle

\* the server's requests interleaved with changes of the files and the clock
SpecRequests == SpecRequestsInit /\ [][RequestsNext]_vars

SpecHistoryInit == BatchIdle /\ FileIdle /\ HistoryInit /\ GenIdle /\ CostIdle /\ RankIdle

\* GET /api/history on a history log
SpecHistory == SpecHistoryInit /\ [][GetHistory]_vars

SpecGenInit == BatchIdle /\ FileIdle /\ ServerInit /\ GenInit /\ CostIdle /\ RankIdle

\* a run of generate-data.js
SpecGen == SpecGenInit /\ [][GenNext]_vars

SpecCostInit == BatchIdle /\ FileIdle /\ ServerIdle /\ GenIdle /\ CostInit /\ RankIdle

\* the cost estimates of a cache as its token counts grow
SpecCost == SpecCostInit /\ [][CostNext]_vars

SpecRankInit == BatchIdle /\ FileIdle /\ ServerIdle /\ GenIdle /\ CostIdle /\ RankInit

\* the top-N lists made of the maps a scan leaves
SpecRank == SpecRankInit /\ [][RankNext]_vars

(***************************************************************************)
(* Properties.                                                             *)
(***************************************************************************)
\* the sum of the first n elements of a sequence of numbers
RECURSIVE SumFirst(_, _)
SumFirst(seq, n) == IF n = 0 THEN 0 ELSE SumFirst(seq, n - 1) + seq[n]

\* the sum of the counts of an object of counts
RECURSIVE SumCounts(_)
SumCounts(obj) == IF obj = <<>> THEN 0 ELSE Head(obj).v.n + SumCounts(Tail(obj))

\* every line of the file is a JSON object
AllRecords(content) ==
  \A i \in 1..Len(content) : content[i].text = "json" /\ content[i].value.json = "object"

\* the records of the file whose type is user or assistant
MessageRecords(content) ==
  Cardinality({i \in 1..Len(content) : content[i].value.type \in {S_user, S_assistant}})

\* C1: for a session file whose lines are all well-formed records, the
\* message count processSession gives the session and its project, and the
\* count the loop of GET /api/projects adds, are the number of its records of
\* type user or assistant.
C1_MessageCount ==
  (fpc \in {"walked", "edited"} /\ AllRecords(file)) =>
     /\ walked.batch.s.sessionMessages = MessageRecords(file)
     /\ walked.batch.project.messages = MessageRecords(file)
     /\ walked.server.totalMessages = MessageRecords(file)

\* a walked file of three records, one of them of another type
C1_Witness ==
  /\ fpc = "walked"
  /\ AllRecords(file)
  /\ Len(file) = 3
  /\ \E i \in 1..3 : file[i].value.type = S_system
  /\ walked.batch.s.sessionMessages = 2
  /\ walked.server.totalMessages = 2

\* C2: at every point of a scan the entries of toolCounts are numbers whose
\* sum is the number of tool_use blocks counted so far.
C2_ToolCountsSum ==
  /\ \A i \in 1..Len(data.toolCounts) : data.toolCounts[i].v.t = "num"
  /\ SumCounts(data.toolCounts) = seen.toolCalls

\* C3, as stated: at the end of a run the 24 hourly buckets and the 7
\* weekday buckets each sum to the number of scanned records in the window,
\* for any usage cache.
C3_BucketsCountScannedOnly ==
  pc = "done" =>
    /\ SumFirst(artifact.data.hourlyActivity, 24) = seen.inWindow
    /\ SumFirst(artifact.data.weekdayActivity, 7) = seen.inWindow

\* C3: throughout a run the 7 weekday buckets sum to the number of scanned
\* records whose timestamp is in the window, and the hourly buckets 0..23 sum
\* to that number plus what the load of the usage cache left in them.
C3_BucketSums ==
  pc # "idle" =>
    /\ SumFirst(data.weekdayActivity, 7) = seen.inWindow
    /\ SumFirst(data.hourlyActivity, 24)
         = SumFirst(seen.hourlyAfterCache, 24) + seen.inWindow
    /\ (seen.cache \in {"missing", "invalid"} => SumFirst(seen.hourlyAfterCache, 24) = 0)
    /\ (pc = "done" => artifact.data.hourlyActivity = data.hourlyActivity
                       /\ artifact.data.weekdayActivity = data.weekdayActivity)

\* a finished run that loaded hour counts from the cache and scanned records
\* inside the window
C3_Witness ==
  /\ pc = "done"
  /\ seen.cache = "ok"
  /\ SumFirst(seen.hourlyAfterCache, 24) > 0
  /\ seen.inWindow >= 2
  /\ seen.reads > seen.inWindow + 2

\* C4: a list has at most its limit of entries and, enumerated in the order of
\* the output, non-increasing counts.
C4_TopNDescending ==
  rpc = "ranked" =>
    /\ Len(emitted.list) <= emitted.limit
    /\ \A i, j \in 1..Len(emitted.list) :
         i < j => emitted.list[i].v.n >= emitted.list[j].v.n

\* C5: a line that fails to parse, inserted anywhere in a session file,
\* changes nothing the scripts derive from it, and the parsers return the
\* values of the other lines in file order.
C5_MalformedLineIgnored ==
  fpc = "edited" =>
    LET IsJson(l) == l.text = "json"
        IsTruthyJson(l) == l.text = "json" /\ Truthy(l.value)
        json == SelectSeq(file, IsJson)
        truthy == SelectSeq(file, IsTruthyJson)
    IN /\ rewalked.batch = walked.batch
       /\ rewalked.server = walked.server
       /\ rewalked.lines = [i \in 1..Len(json) |-> json[i].value]
       /\ rewalked.entries = [i \in 1..Len(truthy) |-> truthy[i].value]

\* a malformed line inserted between two records of a file with messages, a
\* tool call, a branch, a model and a timestamp in the window
C5_Witness ==
  /\ fpc = "edited"
  /\ Len(file) = 2
  /\ AllRecords(file)
  /\ edited[2] = RawBad
  /\ walked.batch.s.sessionMessages = 2
  /\ walked.batch.s.sessionToolCalls >= 1
  /\ walked.batch.s.branch # <<>>
  /\ walked.batch.g.modelUsage # <<>>
  /\ SumFirst(walked.batch.g.weekdayActivity, 7) >= 1
  /\ Len(rewalked.lines) = 2

\* C6: a run of generate-data.js with the usage cache missing or not valid
\* JSON does not abort.
C6_GenerateDataSurvives ==
  fs.cache.state \in {"missing", "invalid"} => genPc # "crashed"

\* C7, as stated: when something the handler needs is missing, unreadable or
\* unparseable, the response is a JSON error with a 5xx status.
C7_EveryFailureIsFault ==
  LET e == request.endpoint
      cacheBad == fs.cache.state \in {"missing", "invalid"}
      entryBad == fs.projectsDir = "missing" \/ fs.project = "broken"
      dirsBad == entryBad \/ fs.project = "unreadable"
      failure ==
        \/ e \in {"stats", "timeline", "summary"} /\ cacheBad
        \/ e \in {"projects", "timeline"} /\ dirsBad
        \/ e = "summary" /\ entryBad
        \/ e = "history" /\ fs.history.state = "missing"
        \/ e = "session" /\ request.project /\ request.sessionId
           /\ fs.projectsDir = "ok" /\ fs.project = "directory"
           /\ fs.sessionFile = "missing" /\ fs.agentFile = "missing"
  IN (hpc = "idle" /\ failure) => response.status >= 500 /\ response.error

\* C7: the cache missing or not valid JSON, the projects directory missing,
\* an entry of it that cannot be examined and a project that cannot be listed
\* are answered 500 with a JSON error; a line-delimited file that is missing
\* or unreadable reads as empty and is answered 200; a session with neither
\* file is answered 404 with a JSON error.
C7_FailureStatus ==
  LET e == request.endpoint
      cacheBad == fs.cache.state \in {"missing", "invalid"}
      entryBad == fs.projectsDir = "missing" \/ fs.project = "broken"
      listBad == fs.projectsDir = "ok" /\ fs.project = "unreadable"
      found == /\ request.project /\ request.sessionId
               /\ fs.projectsDir = "ok" /\ fs.project \in {"directory", "unreadable"}
               /\ (fs.sessionFile # "missing" \/ fs.agentFile # "missing")
      fault == response.status = 500 /\ response.error
  IN (e # "none" /\ hpc = "idle") =>
       /\ response.status \in {200, 404, 500}
       /\ response.error <=> response.status # 200
       /\ e = "stats" => (fault <=> cacheBad)
       /\ e = "projects" => (fault <=> (entryBad \/ listBad))
       /\ e = "timeline" => (fault <=> (cacheBad \/ fs.cache.state = "null" \/ entryBad \/ listBad))
       /\ e = "summary" => (fault <=> (cacheBad \/ fs.cache.state = "null" \/ entryBad))
       /\ e = "session" => /\ response.status # 500
                           /\ response.status = 404 <=> ~found
                           /\ (found /\ fs.sessionFile = "unreadable") => response.body = <<>>
       /\ (e = "history" /\ fs.history.state = "missing") =>
            response.status = 200 /\ response.body = <<>>

\* a session with neither file answered 404, with the cache missing as well
C7_Witness ==
  /\ request.endpoint = "session"
  /\ request.project
  /\ request.sessionId
  /\ fs.projectsDir = "ok"
  /\ fs.project = "directory"
  /\ fs.sessionFile = "missing"
  /\ fs.agentFile = "missing"
  /\ fs.cache.state = "missing"
  /\ fs.history.state = "missing"
  /\ hpc = "idle"
  /\ response.status = 404
  /\ response.error

\* C8: for a numeric limit L (here L >= 0) the date groups hold at most L
\* entries and at most L dates, all from the last L records of the log; the
\* default of 100 applies when the limit is absent or not numeric.
C8_LimitSemantics ==
  (/\ request.endpoint = "history"
   /\ response.status = 200
   /\ (ParseInt(request.limit).nan \/ ParseInt(request.limit).v >= 0)) =>
    LET n == ParseInt(request.limit)
        L == IF n.nan THEN DefaultLimit ELSE n.v
        entries == HistoryEntries(ReadAll(request, "history", BlankView, fs, now))
        first == IF Len(entries) > L THEN Len(entries) - L + 1 ELSE 1
        groups == response.body
    IN /\ Len(groups) <= L
       /\ SumFirst([g \in 1..Len(groups) |-> Len(groups[g].v)], Len(groups)) <= L
       /\ \A g \in 1..Len(groups) : \A k \in 1..Len(groups[g].v) :
            \E i \in first..Len(entries) :
              /\ entries[i].sessionId = groups[g].v[k].sessionId
              /\ entries[i].timestamp = groups[g].v[k].timestamp

\* C9: at the end of a run every project directory has as many sessions as
\* it has .jsonl files.
C9_SessionsPerProject ==
  pc = "done" =>
    /\ Len(projectMap) = Len(seen.jsonl)
    /\ \A i \in 1..Len(projectMap) : projectMap[i].sessions = seen.jsonl[i]

\* the rates a display name is charged at: the Opus row for the Opus
\* display names, the default row for every other name
C10_Rates(name) ==
  IF name \in {S_ClaudeOpus45, M_OpusCaps}
  THEN [input |-> 1500, output |-> 7500, cacheRead |-> 150, cacheWrite |-> 1875]
  ELSE [input |-> 300, output |-> 1500, cacheRead |-> 30, cacheWrite |-> 375]

C10_Costs ==
  cpc = "estimated" =>
    LET mu == ObjectEntries(estimate.modelUsage)
        cost == estimate.perModel
        NoUse(u) == u.inputTokens = 0 /\ u.outputTokens = 0 /\ u.cacheRead = 0 /\ u.cacheWrite = 0
        raw == ObjectEntries(usageIn)
    IN /\ Len(cost) = Len(mu)
       /\ \A i \in 1..Len(mu) :
            /\ cost[i].k = mu[i].k
            /\ cost[i].v = mu[i].v.inputTokens * C10_Rates(mu[i].k).input
                           + mu[i].v.outputTokens * C10_Rates(mu[i].k).output
                           + mu[i].v.cacheRead * C10_Rates(mu[i].k).cacheRead
                           + mu[i].v.cacheWrite * C10_Rates(mu[i].k).cacheWrite
            /\ NoUse(mu[i].v) => cost[i].v = 0
       /\ estimate.estimatedCostUSD
            = SumFirst([i \in 1..Len(cost) |-> cost[i].v], Len(cost))
       /\ \A i \in 1..Len(raw) :
            (raw[i].v.inputTokens = 0 /\ raw[i].v.outputTokens = 0
             /\ raw[i].v.cacheReadInputTokens = 0)
              => OwnValue(estimate.server, raw[i].k).totalCost = 0

C10_NeverDecreases ==
  (cpc = "estimated" /\ cpc' = "estimated") =>
    /\ \A i \in 1..Len(estimate.perModel) :
         estimate'.perModel[i].v >= estimate.perModel[i].v
    /\ estimate'.estimatedCostUSD >= estimate.estimatedCostUSD
    /\ \A i \in 1..Len(usageIn) :
         /\ OwnValue(estimate'.server, usageIn[i].k).totalCost
              >= OwnValue(estimate.server, usageIn[i].k).totalCost
         /\ OwnValue(estimate'.server, usageIn[i].k).inputCost
              >= OwnValue(estimate.server, usageIn[i].k).inputCost

\* C10: a model's cost is zero when its token counts are zero, is charged at
\* the Opus row for the Opus display names and at the default row for every
\* other name, never decreases when a token count grows, and the costs sum to
\* estimatedCostUSD.
C10_CostEstimate == [](C10_Costs) /\ [][C10_NeverDecreases]_vars

\* an Opus model and an unknown model, both with tokens, and a cost
C10_Witness ==
  /\ cpc = "estimated"
  /\ Len(usageIn) = 2
  /\ usageIn[1].k = M_opus
  /\ usageIn[2].k = M_other
  /\ usageIn[1].v.inputTokens > 0
  /\ usageIn[1].v.cacheCreationInputTokens > 0
  /\ usageIn[2].v.outputTokens > 0
  /\ estimate.estimatedCostUSD > 0
  /\ OwnValue(estimate.server, M_opus).totalCost > 0

\* C11: in every state of a run and in the artifact, hourlyActivity has
\* exactly 24 elements and weekdayActivity exactly 7, all of them numbers.
C11_FixedLengths ==
  pc # "idle" =>
    /\ Len(data.hourlyActivity) = 24
    /\ Len(data.weekdayActivity) = 7
    /\ \A i \in 1..Len(data.hourlyActivity) : data.hourlyActivity[i] >= 0
    /\ \A i \in 1..Len(data.weekdayActivity) : data.weekdayActivity[i] >= 0
    /\ (pc = "done" => Len(artifact.data.hourlyActivity) = 24)

\* C12: a line that parses to null fails alone: the walker does not throw
\* out of the file, and the other lines of the file contribute what they
\* contribute in the file without that line.
C12_NullLineIsolated ==
  fpc \in {"walked", "edited"} =>
    LET NotNull(l) == ~(l.text = "json" /\ l.value.json = "null")
        others == SelectSeq(file, NotNull)
    IN /\ ~walked.batch.threw
       /\ walked.batch = processSession(parseJsonl(others), InitialData, NewProject(1))

\* the messages of the projects of a Map
RECURSIVE ProjectMessages(_)
ProjectMessages(pm) == IF pm = <<>> THEN 0 ELSE Head(pm).messages + ProjectMessages(Tail(pm))

\* C13, as stated: the walker adds every user or assistant record to the
\* global message count, so that at the end of a run summary.totalMessages
\* is at least the messages the scan gave the projects.
C13_GlobalCountsScanned ==
  pc = "done" => artifact.data.totalMessages >= ProjectMessages(projectMap)

\* C13: the walker adds a user or assistant record to the session's count
\* only, and at the end of the file that count is added to the project's
\* messages; summary.totalMessages is the usage cache's totalMessages (0
\* without a usable cache) during the scan and in the artifact, and
\* averageSessionLength is made of the cache's two totals.
C13_MessageTotals ==
  pc \notin {"idle", "start"} =>
    /\ data.totalMessages = seen.cacheMessages
    /\ (pc = "lines" => session.sessionMessages = seen.sessionRecords)
    /\ ProjectMessages(projectMap) = seen.projectRecords
    /\ (pc = "done" =>
          /\ artifact.data.totalMessages = seen.cacheMessages
          /\ artifact.averageSessionLength
               = (IF data.totalSessions > 0
                  THEN (2 * seen.cacheMessages + data.totalSessions) \div (2 * data.totalSessions)
                  ELSE 0))

\* a finished run without a usable cache whose project has two messages
C13_Witness ==
  /\ pc = "done"
  /\ seen.cache = "missing"
  /\ Len(projectMap) = 1
  /\ projectMap[1].messages = 2
  /\ artifact.data.totalMessages = 0

\* C14: the branch of a session file is the gitBranch of its first record
\* in file order that has one, and the file adds exactly one to the branch
\* counts when a record has a gitBranch and nothing otherwise.
C14_FirstSeenBranch ==
  fpc \in {"walked", "edited"} =>
    LET recs == walked.lines
        branched == {i \in 1..Len(recs) : recs[i].gitBranch # <<>>}
        first == CHOOSE i \in branched : \A j \in branched : i <= j
        counts == walked.batch.g.branchCounts
    IN /\ walked.batch.s.branch = (IF branched = {} THEN <<>> ELSE recs[first].gitBranch)
       /\ \A i \in 1..Len(counts) : counts[i].v.t = "num"
       /\ SumCounts(counts) = (IF branched = {} THEN 0 ELSE 1)
       /\ (branched # {} => counts = <<Prop(recs[first].gitBranch, [t |-> "num", n |-> 1])>>)

\* the response just made, by a handler under which neither the files nor
\* the time changed, is to the request of the exchange kept
C15_Repeated == step = "request" /\ pinned.state = "set" /\ request = pinned.request

\* C15, as stated: a response depends only on the request's parameters and
\* the files as they are when it is handled.
C15_RequestAndFilesOnly ==
  (C15_Repeated /\ fs = pinned.fs) => response = pinned.response

\* the same request on the same files (for /api/timeline: at the same time)
\* has the same response, whatever was served and whatever changed in between
C15_SameInputsSameAnswer ==
  (C15_Repeated /\ fs = pinned.fs
   /\ (request.endpoint = "timeline" => now = pinned.now)) =>
    response = pinned.response

\* a response is made of what the handler's calls found, each call finding
\* the files as they were when it was made: a handler the files did not
\* change under answers as it does on those files left alone
C15_AnswerOfReads ==
  step = "request" => response = Handle(request, fs, now)

\* a step of a handler (it takes up a request, makes a call or answers)
\* leaves the files as they are
C15_ReadOnly ==
  (hpc' # hpc \/ request' # request \/ response' # response
   \/ step' \in {"request", "torn"}) => fs' = fs

\* C15: in every interleaving of requests, changes of the files and ticks of
\* the clock, a response depends only on the request's parameters, the files
\* as the handler's calls find them and, for /api/timeline, the time; never
\* on what was served before; and no handler changes the files.
C15_Stateless ==
  [](C15_SameInputsSameAnswer /\ C15_AnswerOfReads) /\ [][C15_ReadOnly]_vars

\* the timeline asked again on the same files at the same time, after the
\* files had changed and another request had been served, and answered as
\* before with a recent session
C15_Witness ==
  /\ C15_Repeated
  /\ request.endpoint = "timeline"
  /\ pinned.between = 2
  /\ fs = pinned.fs
  /\ now = pinned.now
  /\ response = pinned.response
  /\ response.status = 200
  /\ response.body.recentSessions # <<>>

====
